---------------------------- MODULE Spec2Model ----------------------------
(***************************************************************************)
(* A model of the streaming base-N codec (basecode.cpp: BaseN_Encoder,     *)
(* BaseN_Decoder, Grouper) and of the Rijndael/AES core (rijndael.cpp: key *)
(* schedule, single-block engine, bulk engine).                            *)
(*                                                                         *)
(* Bytes are the integers 0..255; a 32-bit word is the tuple of its four    *)
(* bytes, least significant first.                                         *)
(* C arrays are 0-based; the sequences that model them are 1-based, so     *)
(* a[i] in the source is a[i+1] here.                                      *)
(***************************************************************************)
EXTENDS Integers, Sequences, FiniteSets, TLC

VARIABLES
    cfg,        \* filters: the parameters the filters were initialized with
    enc,        \* filters: the BaseN_Encoder object
    dec,        \* filters: the BaseN_Decoder object
    grp,        \* filters: the Grouper object
    msg,        \* filters: bytes put into the first filter in this message
    encOut,     \* filters: characters the encoder emitted in this message
    decOut,     \* filters: bytes the decoder emitted in this message
    grpOut,     \* filters: bytes the grouper emitted in this message
    ended,      \* filters: the current message has been ended (messageEnd seen)
    total,      \* filters: bytes put into the first filter over all messages
    nIgnored,   \* filters: ignored characters put into the decoder, this message
    fed,        \* filters: characters of encOut the caller put into the decoder
    pending,    \* filters: the Put2 call that returned blocked, to be made again
    target,     \* Rijndael: how the library was built and what the processor has
    s_TeFilled, \* Rijndael: the static flag of the table Te
    s_TdFilled, \* Rijndael: the static flag of the table Td
    encObj,     \* Rijndael: a Rijndael::Enc object
    decObj,     \* Rijndael: a Rijndael::Dec object
    userKeys,   \* Rijndael: the user keys the two objects were last keyed with
    lastCall,   \* Rijndael: the last SetKey call and what it threw
    io,         \* Rijndael: the blocks of the last single-block calls
    bulk,       \* Rijndael: the last bulk call, its arguments and results
    tables,     \* threads: the stores made so far to each run of Te and of Td
    threads,    \* threads: where each thread is in its SetKey call
    preload     \* preload: a single-block call and the cache lines it has read

codecVars ==
    <<cfg, enc, dec, grp, msg, encOut, decOut, grpOut, ended, total, nIgnored, fed,
      pending>>

aesVars == <<target, s_TeFilled, s_TdFilled, encObj, decObj, userKeys, lastCall, io, bulk>>

threadVars == <<tables, threads>>

vars == <<codecVars, aesVars, threadVars, preload>>

----------------------------------------------------------------------------
(* Bit arithmetic on naturals *)

Pow2(n) == 2^n

ShiftR(x, n) == x \div Pow2(n)

\* x << n kept to `width` bits
ShiftL(x, n, width) == (x * Pow2(n)) % Pow2(width)

\* Op applied to the value of x: x is evaluated first, then Op on its value
Apply(Op(_), x) == CHOOSE r \in {Op(v) : v \in {x}} : TRUE

\* The sequence f[lo], f[lo + 1], ..., f[hi] of the values of a function
RECURSIVE Tabulate(_, _, _)
Tabulate(f, lo, hi) ==
    IF lo > hi THEN <<>>
    ELSE IF lo = hi THEN <<f[lo]>>
    ELSE LET mid == (lo + hi) \div 2
         IN  Tabulate(f, lo, mid) \o Tabulate(f, mid + 1, hi)

\* a | b and a ^ b bit by bit
RECURSIVE OrBits(_, _)
OrBits(a, b) ==
    IF a = 0 THEN b
    ELSE IF b = 0 THEN a
    ELSE (IF a % 2 = 1 \/ b % 2 = 1 THEN 1 ELSE 0) + 2 * OrBits(a \div 2, b \div 2)

RECURSIVE XorBits(_, _)
XorBits(a, b) ==
    IF a = 0 THEN b
    ELSE IF b = 0 THEN a
    ELSE (((a % 2) + (b % 2)) % 2) + 2 * XorBits(a \div 2, b \div 2)

\* The same on hexadecimal digits, tabulated: entry 16 * a + b + 1 is for the
\* digits a and b
OrDigits == Tabulate([k \in 0..255 |-> OrBits(k \div 16, k % 16)], 0, 255)

XorDigits == Tabulate([k \in 0..255 |-> XorBits(k \div 16, k % 16)], 0, 255)

\* a | b on naturals
RECURSIVE BitOr(_, _)
BitOr(a, b) ==
    IF a = 0 THEN b
    ELSE IF b = 0 THEN a
    ELSE OrDigits[16 * (a % 16) + (b % 16) + 1] + 16 * BitOr(a \div 16, b \div 16)

\* a ^ b on naturals
RECURSIVE BitXor(_, _)
BitXor(a, b) ==
    IF a = 0 THEN b
    ELSE IF b = 0 THEN a
    ELSE XorDigits[16 * (a % 16) + (b % 16) + 1] + 16 * BitXor(a \div 16, b \div 16)

\* A variant of UnsignedAtLeast256 that compares the int as signed: -1 is then
\* a symbol value
SignedAtLeast256(v) == v >= 256

\* (unsigned int)v >= 256 for an int v: a negative int converts to a value of
\* at least 2^31
UnsignedAtLeast256(v) == v < 0 \/ v >= 256

\* n elements, all of them `value`
Fill(value, n) == Tabulate([i \in 1..n |-> value], 1, n)

\* The array of n elements a[1], ..., a[n] as a sequence
Array(a, n) == Tabulate(a, 1, n)

\* memset(buf + from, value, n) on a 1-based sequence (from is 0-based)
Memset(buf, from, value, n) ==
    SubSeq(buf, 1, from) \o Fill(value, n) \o SubSeq(buf, from + n + 1, Len(buf))

----------------------------------------------------------------------------
(* Bounds of the model *)

\* a message is at most one decoder block of bytes plus this many
MaxExtra == 1

\* bytes per put call
MaxPut == 2

\* ignored characters put into the decoder per message
MaxIgnored == 2

\* Put2 calls a sink takes in one call of the filter before it reports the
\* next one blocked, at most (or it never blocks)
MaxAccepted == 1

----------------------------------------------------------------------------
(* Caller data: alphabets and parameters *)

Base64Alphabet ==
    <<65, 66, 67, 68, 69, 70, 71, 72, 73, 74, 75, 76, 77, 78, 79, 80, 81, 82,
      83, 84, 85, 86, 87, 88, 89, 90, 97, 98, 99, 100, 101, 102, 103, 104, 105,
      106, 107, 108, 109, 110, 111, 112, 113, 114, 115, 116, 117, 118, 119,
      120, 121, 122, 48, 49, 50, 51, 52, 53, 54, 55, 56, 57, 43, 47>>

Base32Alphabet ==
    <<65, 66, 67, 68, 69, 70, 71, 72, 73, 74, 75, 76, 77, 78, 79, 80, 81, 82,
      83, 84, 85, 86, 87, 88, 89, 90, 50, 51, 52, 53, 54, 55>>

\* The alphabets callers pass as EncodingLookupArray, by name and Log2Base:
\* "std" is the leading 2^b characters of the Base64 alphabet (all of it for
\* b = 6; the bytes 128..255 for b = 7), "rev" the bytes 255, 254, ...
AlphabetNames == {"std", "rev"}

Alphabet(name, b) ==
    IF name = "std" /\ b <= 6 THEN SubSeq(Base64Alphabet, 1, Pow2(b))
    ELSE IF name = "std" THEN [v \in 1..Pow2(b) |-> 127 + v]
    ELSE [v \in 1..Pow2(b) |-> 256 - v]

AlphabetTable ==
    [name \in AlphabetNames |-> [b \in 1..7 |-> Alphabet(name, b)]]

\* PaddingByte is -1 when the parameter is not supplied; Pad is "absent" when
\* it is not supplied. 61 is '='.
PadOptions ==
    { [PaddingByte |-> -1, Pad |-> "absent"],
      [PaddingByte |-> 61, Pad |-> "absent"],
      [PaddingByte |-> 61, Pad |-> "false"],
      [PaddingByte |-> 61, Pad |-> "true"],
      [PaddingByte |-> -1, Pad |-> "true"],
      [PaddingByte |-> -1, Pad |-> "false"] }

----------------------------------------------------------------------------
(* The filter framework: FILTER_BEGIN, FILTER_OUTPUT and Filter::Output. A
   Put2 whose Output is reported blocked returns to its caller with
   m_continueAt at the site of that Output; the next Put2 call goes on from
   the site. *)

\* An unsigned int as the tuple of its four bytes, least significant first;
\* x is the int with the same 32 bits
UnsignedWord(x) == [k \in 1..4 |-> (x \div Pow2(8 * (k - 1))) % 256]

\* return STDMAX(1U, length - m_inputPosition), on unsigned int: every
\* difference but 0 is above 1
FilterReturn(length, m_inputPosition) ==
    UnsignedWord(IF length - m_inputPosition = 0 THEN 1 ELSE length - m_inputPosition)

\* A sink that takes `credit` more Put2 calls and reports the next one
\* blocked; a sink with a negative credit never blocks
Sink(credit) == [kind |-> "sink", credit |-> credit]

\* The credits of the sinks of the runs
Credits == (-1)..MaxAccepted

\* Put2 of a sink: the sink afterwards, 0 or what it returns when blocked,
\* and no Output calls of its own
Sink_Put2(sink) ==
    IF sink.credit = 0
    THEN [down |-> sink, ret |-> 1, outs |-> <<>>]
    ELSE [down |-> Sink(IF sink.credit > 0 THEN sink.credit - 1 ELSE sink.credit),
          ret |-> 0, outs |-> <<>>]

\* Filter::Output: if (messageEnd) messageEnd--; is what the attached
\* transformation gets
OutputMessageEnd(messageEnd) == IF messageEnd # 0 THEN messageEnd - 1 ELSE 0

\* FILTER_BEGIN: switch (m_continueAt) { case 0: m_inputPosition = 0;
FilterBegin(obj) ==
    IF obj.m_continueAt = 0 THEN [obj EXCEPT !.m_inputPosition = 0] ELSE obj

\* A Put2 call under way: the object, the transformation attached to it,
\* the Output calls made that were taken (each [data, messageEnd]), the
\* Output calls of the attached filter, whether the call has returned
\* blocked, and what it returns
FilterCall(obj, down) ==
    [obj |-> FilterBegin(obj), down |-> down, outs |-> <<>>, below |-> <<>>,
     blocked |-> FALSE, returned |-> UnsignedWord(0)]

\* FILTER_OUTPUT(site, output, length, messageEnd): r is what Put2 of the
\* attached transformation does with the output. Output sets m_continueAt
\* to the site when that Put2 returns nonzero, and Put2 returns; to 0
\* otherwise.
FilterOutput(st, site, data, length, messageEnd, r) ==
    Apply(LAMBDA a :
            IF a.ret # 0
            THEN [st EXCEPT !.obj.m_continueAt = site,
                            !.down = a.down,
                            !.below = @ \o a.outs,
                            !.blocked = TRUE,
                            !.returned = FilterReturn(length, st.obj.m_inputPosition)]
            ELSE [st EXCEPT !.obj.m_continueAt = 0,
                            !.down = a.down,
                            !.below = @ \o a.outs,
                            !.outs = Append(@, [data |-> data, messageEnd |-> messageEnd])],
          r)

\* m_bytePos = m_bitPos = 0; after a FILTER_OUTPUT, reached when Put2 has not
\* returned there
ResetCursor(st) ==
    IF st.blocked THEN st ELSE [st EXCEPT !.obj.m_bytePos = 0, !.obj.m_bitPos = 0]

\* The bytes a sink receives from a sequence of Output calls.
RECURSIVE SinkData(_)
SinkData(outs) ==
    IF outs = <<>> THEN <<>> ELSE Head(outs).data \o SinkData(Tail(outs))

----------------------------------------------------------------------------
(* BaseN_Decoder *)

\* isalpha, toupper and tolower of <ctype.h> in the "C" locale
IsAlpha(c) == (c >= 65 /\ c <= 90) \/ (c >= 97 /\ c <= 122)

ToUpper(c) == IF c >= 97 /\ c <= 122 THEN c - 32 ELSE c

ToLower(c) == IF c >= 65 /\ c <= 90 THEN c + 32 ELSE c

\* The bytes the body of the for loop of InitializeDecodingLookupArray stores
\* to for an alphabet character c.
LookupRegisters(c, caseInsensitive) ==
    IF caseInsensitive /\ IsAlpha(c) THEN {ToUpper(c), ToLower(c)} ELSE {c}

\* A variant of InitializeDecodingLookupArray that stores to lookup[alphabet[i]]
\* alone, whatever caseInsensitive is
InitializeDecodingLookupArrayExact(alphabet, base, caseInsensitive) ==
    [c \in 0..255 |->
        LET stores == {i \in 0..(base - 1) : c = alphabet[i + 1]}
        IN  IF stores = {} THEN -1
            ELSE CHOOSE i \in stores : \A j \in stores : j <= i]

\* The 256-entry array InitializeDecodingLookupArray leaves in `lookup`:
\* every entry is -1 but those the loop over i = 0 .. base-1 stored to, which
\* hold the last i stored.
InitializeDecodingLookupArray(alphabet, base, caseInsensitive) ==
    [c \in 0..255 |->
        LET stores == {i \in 0..(base - 1) :
                          c \in LookupRegisters(alphabet[i + 1], caseInsensitive)}
        IN  IF stores = {} THEN -1
            ELSE CHOOSE i \in stores : \A j \in stores : j <= i]

\* The arrays callers pass as DecodingLookupArray: for an encoder alphabet, the
\* array built from it (every other byte, the padding byte too, maps to -1).
LookupTable ==
    [name \in AlphabetNames |->
        [b \in 1..7 |->
            InitializeDecodingLookupArray(AlphabetTable[name][b], Pow2(b), FALSE)]]

Base32Lookup ==
    [ci \in BOOLEAN |-> InitializeDecodingLookupArray(Base32Alphabet, 32, ci)]

\* m_lookup points at the caller's array: lookup = <<"table", name>> for
\* LookupTable[name][Log2Base], <<"base32", ci>> for Base32Lookup[ci].
DecodingLookupArray(lookup, bitsPerChar) ==
    IF lookup[1] = "table" THEN LookupTable[lookup[2]][bitsPerChar]
    ELSE Base32Lookup[lookup[2]]

\* int i = m_bitsPerChar; while (i % 8 != 0) i += m_bitsPerChar;
RECURSIVE DecBlockBits(_, _)
DecBlockBits(i, bitsPerChar) ==
    IF i % 8 # 0 THEN DecBlockBits(i + bitsPerChar, bitsPerChar) ELSE i

BaseN_Decoder_IsolatedInitialize(parameters, junk) ==
    LET bitsPerChar == parameters.Log2Base
        outputBlockSize == DecBlockBits(bitsPerChar, bitsPerChar) \div 8
    IN  IF bitsPerChar <= 0 \/ bitsPerChar >= 8
        THEN [thrown |-> "InvalidArgument"]
        ELSE [ thrown |-> "none",
               m_lookup |-> parameters.DecodingLookupArray,
               m_bitsPerChar |-> bitsPerChar,
               m_bytePos |-> 0,
               m_bitPos |-> 0,
               m_outputBlockSize |-> outputBlockSize,
               m_outBuf |-> Fill(junk, outputBlockSize),
               m_continueAt |-> 0,
               m_inputPosition |-> 0,
               fault |-> "none" ]

\* A variant of DecOrInto that keeps the bits of value above the byte
DecOrIntoWide(d, index, value) ==
    IF index < d.m_outputBlockSize
    THEN [d EXCEPT !.m_outBuf[index + 1] = BitOr(@, value)]
    ELSE [d EXCEPT !.fault = IF @ = "none" THEN "m_outBuf index" ELSE @]

\* m_outBuf[index] |= value, kept to a byte; a store outside the buffer is
\* recorded in `fault`.
DecOrInto(d, index, value) ==
    IF index < d.m_outputBlockSize
    THEN [d EXCEPT !.m_outBuf[index + 1] = BitOr(@, value % 256)]
    ELSE [d EXCEPT !.fault = IF @ = "none" THEN "m_outBuf index" ELSE @]

\* while (m_bitPos >= 8) { m_bitPos -= 8; ++m_bytePos; }
RECURSIVE DecAdvance(_)
DecAdvance(d) ==
    IF d.m_bitPos >= 8
    THEN DecAdvance([d EXCEPT !.m_bitPos = @ - 8, !.m_bytePos = @ + 1])
    ELSE d

\* FILTER_OUTPUT(1, m_outBuf, m_outputBlockSize, 0); m_bytePos = m_bitPos = 0;
DecOutputBlock(st) ==
    Apply(ResetCursor,
          FilterOutput(st, 1, SubSeq(st.obj.m_outBuf, 1, st.obj.m_outputBlockSize),
                       st.obj.m_outputBlockSize, 0, Sink_Put2(st.down)))

\* One pass of the while (m_inputPosition < length) loop of Put2 for the
\* character c = begin[m_inputPosition++].
DecPutChar(st, c) ==
    LET d == [st.obj EXCEPT !.m_inputPosition = @ + 1]
        value == DecodingLookupArray(d.m_lookup, d.m_bitsPerChar)[c]
    IN  IF UnsignedAtLeast256(value) THEN [st EXCEPT !.obj = d]
        ELSE
        LET d1 == IF d.m_bytePos = 0 /\ d.m_bitPos = 0
                  THEN [d EXCEPT !.m_outBuf = Memset(@, 0, 0, d.m_outputBlockSize)]
                  ELSE d
            newBitPos == d1.m_bitPos + d1.m_bitsPerChar
            d2 == IF newBitPos <= 8
                  THEN DecOrInto(d1, d1.m_bytePos, value * Pow2(8 - newBitPos))
                  ELSE DecOrInto(
                          DecOrInto(d1, d1.m_bytePos, ShiftR(value, newBitPos - 8)),
                          d1.m_bytePos + 1, value * Pow2(16 - newBitPos))
        IN  Apply(LAMBDA d3 :
                    IF d3.m_bytePos = d3.m_outputBlockSize
                    THEN DecOutputBlock([st EXCEPT !.obj = d3])
                    ELSE [st EXCEPT !.obj = d3],
                  DecAdvance([d2 EXCEPT !.m_bitPos = newBitPos]))

\* The while loop of Put2, entered at its top or, when m_continueAt is 1, at
\* the Output of its body
RECURSIVE DecPutChars(_, _)
DecPutChars(st, chars) ==
    IF st.blocked \/ st.obj.fault # "none" THEN st
    ELSE IF st.obj.m_continueAt = 1
    THEN Apply(LAMBDA s : DecPutChars(s, chars), DecOutputBlock(st))
    ELSE IF st.obj.m_inputPosition < Len(chars)
    THEN Apply(LAMBDA s : DecPutChars(s, chars),
               DecPutChar(st, chars[st.obj.m_inputPosition + 1]))
    ELSE st

\* FILTER_OUTPUT(2, m_outBuf, m_bytePos, messageEnd); m_bytePos = m_bitPos = 0;
DecMessageEnd(st, messageEnd) ==
    Apply(ResetCursor,
          FilterOutput(st, 2, SubSeq(st.obj.m_outBuf, 1, st.obj.m_bytePos),
                       st.obj.m_bytePos, messageEnd, Sink_Put2(st.down)))

\* Put2(begin, length, messageEnd, blocking) of a decoder attached to the
\* sink `down`: the call as it returns. With m_continueAt = 2 the switch of
\* FILTER_BEGIN enters the if (messageEnd) block at its Output.
BaseN_Decoder_Put2(d, chars, messageEnd, down) ==
    Apply(LAMBDA st1 :
            IF st1.blocked THEN st1
            ELSE IF st1.obj.m_continueAt = 2 \/ messageEnd # 0
            THEN DecMessageEnd(st1, messageEnd)
            ELSE st1,
    Apply(LAMBDA st0 :
            IF st0.obj.m_continueAt = 2 THEN st0 ELSE DecPutChars(st0, chars),
          FilterCall(d, down)))

\* A filter whose attached transformation is the decoder `d`, itself
\* attached to the sink `down`
Attached(d, down) == [kind |-> "filter", obj |-> d, down |-> down]

\* Put2 of the attached transformation `down`, a sink or a decoder: what it
\* is afterwards, 0 or what it returns when blocked, and its own Output
\* calls
AttachedPut2(down, data, messageEnd) ==
    IF down.kind = "sink" THEN Sink_Put2(down)
    ELSE Apply(LAMBDA r :
                 [down |-> Attached(r.obj, r.down),
                  ret |-> IF r.blocked THEN 1 ELSE 0,
                  outs |-> r.outs],
               BaseN_Decoder_Put2(down.obj, data, messageEnd, down.down))

----------------------------------------------------------------------------
(* BaseN_Encoder *)

\* int i = 8; while (i % m_bitsPerChar != 0) i += 8;
RECURSIVE EncBlockBits(_, _)
EncBlockBits(i, bitsPerChar) ==
    IF i % bitsPerChar # 0 THEN EncBlockBits(i + 8, bitsPerChar) ELSE i

\* A variant of BaseN_Encoder_IsolatedInitialize in which Pad defaults to
\* true, and the padding byte to '=', also without a PaddingByte
BaseN_Encoder_IsolatedInitializePadDefault(parameters, junk) ==
    LET bitsPerChar == parameters.Log2Base
        pad == IF parameters.Pad = "absent" THEN TRUE ELSE parameters.Pad = "true"
        padding == IF parameters.PaddingByte # -1 THEN parameters.PaddingByte ELSE 61
        outputBlockSize == EncBlockBits(8, bitsPerChar) \div bitsPerChar
    IN  IF bitsPerChar <= 0 \/ bitsPerChar >= 8
        THEN [thrown |-> "InvalidArgument"]
        ELSE [ thrown |-> "none",
               m_alphabet |-> parameters.EncodingLookupArray,
               m_bitsPerChar |-> bitsPerChar,
               m_padding |-> IF pad THEN padding ELSE -1,
               m_bytePos |-> 0,
               m_bitPos |-> 0,
               m_outputBlockSize |-> outputBlockSize,
               m_outBuf |-> Fill(junk, outputBlockSize),
               m_continueAt |-> 0,
               m_inputPosition |-> 0,
               fault |-> "none" ]

\* The object after IsolatedInitialize. m_alphabet is the caller's array (the
\* object keeps a pointer to it). m_outBuf.New() leaves the buffer's bytes
\* unspecified: `junk` is what it holds. Log2Base outside 1..7 throws.
\* m_continueAt is 0 from the construction of the filter; m_inputPosition is
\* stored to by FILTER_BEGIN before it is read.
BaseN_Encoder_IsolatedInitialize(parameters, junk) ==
    LET bitsPerChar == parameters.Log2Base
        pad == IF parameters.PaddingByte # -1
               THEN (IF parameters.Pad = "absent" THEN TRUE
                     ELSE parameters.Pad = "true")
               ELSE FALSE
        outputBlockSize == EncBlockBits(8, bitsPerChar) \div bitsPerChar
    IN  IF bitsPerChar <= 0 \/ bitsPerChar >= 8
        THEN [thrown |-> "InvalidArgument"]
        ELSE [ thrown |-> "none",
               m_alphabet |-> parameters.EncodingLookupArray,
               m_bitsPerChar |-> bitsPerChar,
               m_padding |-> IF pad THEN parameters.PaddingByte ELSE -1,
               m_bytePos |-> 0,
               m_bitPos |-> 0,
               m_outputBlockSize |-> outputBlockSize,
               m_outBuf |-> Fill(junk, outputBlockSize),
               m_continueAt |-> 0,
               m_inputPosition |-> 0,
               fault |-> "none" ]

\* A store through m_outBuf[i] or a load of it with i outside the buffer, or a
\* load of m_alphabet[v] outside the alphabet, is recorded in `fault`.
EncFault(e, what) == IF e.fault = "none" THEN what ELSE e.fault

\* A variant of EncPutBits that leaves m_bitPos as it is when a symbol is
\* complete
RECURSIVE EncPutBitsKeepBitPos(_, _, _)
EncPutBitsKeepBitPos(e, b, bitsLeftInSource) ==
    LET bitsLeftInTarget == e.m_bitsPerChar - e.m_bitPos
        inside == e.m_bytePos < e.m_outputBlockSize
        e0 == IF e.m_bitPos < e.m_bitsPerChar THEN e
              ELSE [e EXCEPT !.fault = EncFault(e, "assert m_bitPos")]
        e1 == IF inside
              THEN [e0 EXCEPT !.m_outBuf[e.m_bytePos + 1] =
                        BitOr(@, ShiftR(b, 8 - bitsLeftInTarget)) % 256]
              ELSE [e0 EXCEPT !.fault = EncFault(e0, "m_outBuf index")]
    IN  IF e1.fault # "none" THEN e1
        ELSE IF bitsLeftInSource >= bitsLeftInTarget
        THEN LET e2 == [e1 EXCEPT !.m_bytePos = @ + 1]
                 left == bitsLeftInSource - bitsLeftInTarget
             IN  IF left = 0 THEN e2
                 ELSE EncPutBitsKeepBitPos(e2, ShiftL(b, bitsLeftInTarget, 8), left)
        ELSE [e1 EXCEPT !.m_bitPos = @ + bitsLeftInSource]

\* The inner while (true) loop of Put2 for one input byte: b holds the bits
\* not yet consumed in its high bitsLeftInSource bits.
RECURSIVE EncPutBits(_, _, _)
EncPutBits(e, b, bitsLeftInSource) ==
    LET bitsLeftInTarget == e.m_bitsPerChar - e.m_bitPos
        inside == e.m_bytePos < e.m_outputBlockSize
        e0 == IF e.m_bitPos < e.m_bitsPerChar THEN e
              ELSE [e EXCEPT !.fault = EncFault(e, "assert m_bitPos")]
        e1 == IF inside
              THEN [e0 EXCEPT !.m_outBuf[e.m_bytePos + 1] =
                        BitOr(@, ShiftR(b, 8 - bitsLeftInTarget)) % 256]
              ELSE [e0 EXCEPT !.fault = EncFault(e0, "m_outBuf index")]
    IN  IF e1.fault # "none" THEN e1
        ELSE IF bitsLeftInSource >= bitsLeftInTarget
        THEN LET e2 == [e1 EXCEPT !.m_bitPos = 0, !.m_bytePos = @ + 1]
                 left == bitsLeftInSource - bitsLeftInTarget
             IN  IF left = 0 THEN e2
                 ELSE EncPutBits(e2, ShiftL(b, bitsLeftInTarget, 8), left)
        ELSE [e1 EXCEPT !.m_bitPos = @ + bitsLeftInSource]

\* for (i=0; i<m_bytePos; i++) m_outBuf[i] = m_alphabet[m_outBuf[i]];
\* `checked` is the assert of the loop in the body of the while.
RECURSIVE EncTranslateBuf(_, _, _)
EncTranslateBuf(buf, alphabet, n) ==
    IF n <= 0 \/ buf = <<>> THEN buf
    ELSE <<IF Head(buf) + 1 <= Len(alphabet)
           THEN alphabet[Head(buf) + 1] ELSE Head(buf)>>
         \o EncTranslateBuf(Tail(buf), alphabet, n - 1)

EncTranslate(e, checked) ==
    LET alphabet == AlphabetTable[e.m_alphabet][e.m_bitsPerChar]
        n == e.m_bytePos
        bad == \E i \in 1..n : i <= Len(e.m_outBuf) /\ e.m_outBuf[i] + 1 > Len(alphabet)
        buf == EncTranslateBuf(e.m_outBuf, alphabet, n)
    IN  [e EXCEPT !.m_outBuf = buf,
                  !.fault = IF bad
                            THEN EncFault(e, IF checked THEN "assert m_outBuf[i]"
                                             ELSE "m_alphabet index")
                            ELSE @]

\* FILTER_OUTPUT(1, m_outBuf, m_outputBlockSize, 0); m_bytePos = m_bitPos = 0;
EncOutputBlock(st) ==
    Apply(ResetCursor,
          FilterOutput(st, 1, SubSeq(st.obj.m_outBuf, 1, st.obj.m_outputBlockSize),
                       st.obj.m_outputBlockSize, 0,
                       AttachedPut2(st.down,
                                    SubSeq(st.obj.m_outBuf, 1, st.obj.m_outputBlockSize),
                                    OutputMessageEnd(0))))

\* One pass of the while (m_inputPosition < length) loop for the byte
\* begin[m_inputPosition++]. st is the call under way.
EncPutByte(st, byte) ==
    LET e == [st.obj EXCEPT !.m_inputPosition = @ + 1]
        e1 == IF e.m_bytePos = 0
              THEN [e EXCEPT !.m_outBuf = Memset(@, 0, 0, e.m_outputBlockSize)]
              ELSE e
    IN  Apply(LAMBDA e2 :
                LET e3 == IF e2.m_bytePos <= e2.m_outputBlockSize THEN e2
                          ELSE [e2 EXCEPT !.fault = EncFault(e2, "assert m_bytePos")]
                IN  IF e3.m_bytePos = e3.m_outputBlockSize
                    THEN Apply(EncOutputBlock, [st EXCEPT !.obj = EncTranslate(e3, TRUE)])
                    ELSE [st EXCEPT !.obj = e3],
              EncPutBits(e1, byte, 8))

\* The while loop of Put2, entered at its top or, when m_continueAt is 1, at
\* the Output of its body
RECURSIVE EncPutBytes(_, _)
EncPutBytes(st, bytes) ==
    IF st.blocked \/ st.obj.fault # "none" THEN st
    ELSE IF st.obj.m_continueAt = 1
    THEN Apply(LAMBDA s : EncPutBytes(s, bytes), EncOutputBlock(st))
    ELSE IF st.obj.m_inputPosition < Len(bytes)
    THEN Apply(LAMBDA s : EncPutBytes(s, bytes),
               EncPutByte(st, bytes[st.obj.m_inputPosition + 1]))
    ELSE st

\* A variant of EncMessageEnd that pads without the test m_bytePos > 0
EncMessageEndPadAlways(st, messageEnd) ==
    LET e == st.obj
        resumed == e.m_continueAt = 2
        e1 == IF ~resumed /\ e.m_bitPos > 0 THEN [e EXCEPT !.m_bytePos = @ + 1] ELSE e
        e2 == IF resumed THEN e1 ELSE EncTranslate(e1, FALSE)
    IN  Apply(LAMBDA e3 :
                Apply(ResetCursor,
                      FilterOutput([st EXCEPT !.obj = e3], 2,
                                   SubSeq(e3.m_outBuf, 1, e3.m_bytePos), e3.m_bytePos,
                                   messageEnd,
                                   AttachedPut2(st.down,
                                                SubSeq(e3.m_outBuf, 1, e3.m_bytePos),
                                                OutputMessageEnd(messageEnd)))),
              IF ~resumed /\ e2.m_padding # -1
              THEN [e2 EXCEPT
                      !.m_outBuf = Memset(@, e2.m_bytePos, e2.m_padding,
                                          e2.m_outputBlockSize - e2.m_bytePos),
                      !.m_bytePos = e2.m_outputBlockSize]
              ELSE e2)

\* A variant of EncMessageEnd without if (m_bitPos > 0) ++m_bytePos: the
\* pending partial symbol is dropped
EncMessageEndDropPartial(st, messageEnd) ==
    LET e == st.obj
        resumed == e.m_continueAt = 2
        e1 == e
        e2 == IF resumed THEN e1 ELSE EncTranslate(e1, FALSE)
    IN  Apply(LAMBDA e3 :
                Apply(ResetCursor,
                      FilterOutput([st EXCEPT !.obj = e3], 2,
                                   SubSeq(e3.m_outBuf, 1, e3.m_bytePos), e3.m_bytePos,
                                   messageEnd,
                                   AttachedPut2(st.down,
                                                SubSeq(e3.m_outBuf, 1, e3.m_bytePos),
                                                OutputMessageEnd(messageEnd)))),
              IF ~resumed /\ e2.m_padding # -1 /\ e2.m_bytePos > 0
              THEN [e2 EXCEPT
                      !.m_outBuf = Memset(@, e2.m_bytePos, e2.m_padding,
                                          e2.m_outputBlockSize - e2.m_bytePos),
                      !.m_bytePos = e2.m_outputBlockSize]
              ELSE e2)

\* The if (messageEnd) block of Put2, entered at its top or, when
\* m_continueAt is 2, at its Output.
EncMessageEnd(st, messageEnd) ==
    LET e == st.obj
        resumed == e.m_continueAt = 2
        e1 == IF ~resumed /\ e.m_bitPos > 0 THEN [e EXCEPT !.m_bytePos = @ + 1] ELSE e
        e2 == IF resumed THEN e1 ELSE EncTranslate(e1, FALSE)
    IN  Apply(LAMBDA e3 :
                Apply(ResetCursor,
                      FilterOutput([st EXCEPT !.obj = e3], 2,
                                   SubSeq(e3.m_outBuf, 1, e3.m_bytePos), e3.m_bytePos,
                                   messageEnd,
                                   AttachedPut2(st.down,
                                                SubSeq(e3.m_outBuf, 1, e3.m_bytePos),
                                                OutputMessageEnd(messageEnd)))),
              IF ~resumed /\ e2.m_padding # -1 /\ e2.m_bytePos > 0
              THEN [e2 EXCEPT
                      !.m_outBuf = Memset(@, e2.m_bytePos, e2.m_padding,
                                          e2.m_outputBlockSize - e2.m_bytePos),
                      !.m_bytePos = e2.m_outputBlockSize]
              ELSE e2)

\* Put2(begin, length, messageEnd, blocking) of an encoder attached to
\* `down`, a sink or a decoder: the call as it returns.
BaseN_Encoder_Put2(e, bytes, messageEnd, down) ==
    Apply(LAMBDA st1 :
            IF st1.blocked THEN st1
            ELSE IF st1.obj.m_continueAt = 2 \/ messageEnd # 0
            THEN EncMessageEnd(st1, messageEnd)
            ELSE st1,
    Apply(LAMBDA st0 :
            IF st0.obj.m_continueAt = 2 THEN st0 ELSE EncPutBytes(st0, bytes),
          FilterCall(e, down)))

----------------------------------------------------------------------------
(* Grouper *)

\* IsolatedInitialize(parameters): parameters is a record of the name-value
\* pairs supplied. GroupSize defaults to 0; Separator is required, and read,
\* only when the group size is not 0; Terminator is optional.
Grouper_IsolatedInitialize(parameters) ==
    LET supplied == DOMAIN parameters
        groupSize == IF "GroupSize" \in supplied THEN parameters.GroupSize ELSE 0
    IN  IF groupSize # 0 /\ "Separator" \notin supplied
        THEN [thrown |-> "InvalidArgument"]
        ELSE [ thrown |-> "none",
               m_groupSize |-> groupSize,
               m_separator |-> IF groupSize # 0 THEN parameters.Separator ELSE <<>>,
               m_terminator |-> IF "Terminator" \in supplied
                                THEN parameters.Terminator ELSE <<>>,
               m_counter |-> 0,
               m_continueAt |-> 0,
               m_inputPosition |-> 0 ]

\* STDMIN(a, b)
STDMIN(a, b) == IF b < a THEN b ELSE a

\* FILTER_OUTPUT2(2, len = STDMIN(length-m_inputPosition, m_groupSize-m_counter),
\*                begin+m_inputPosition, len, 0);
\* m_inputPosition += len; m_counter += len;
GrouperOutputGroup(st, bytes) ==
    LET g == st.obj
        len == STDMIN(Len(bytes) - g.m_inputPosition, g.m_groupSize - g.m_counter)
    IN  Apply(LAMBDA st1 :
                IF st1.blocked THEN st1
                ELSE [st1 EXCEPT !.obj.m_inputPosition = @ + len,
                                 !.obj.m_counter = @ + len],
              FilterOutput(st, 2,
                           SubSeq(bytes, g.m_inputPosition + 1, g.m_inputPosition + len),
                           len, 0, Sink_Put2(st.down)))

\* A variant of GrouperLoop that puts the separator before the first byte
\* of every group, the first group too
RECURSIVE GrouperLoopLeadingSeparator(_, _)
GrouperLoopLeadingSeparator(st, bytes) ==
    IF st.blocked THEN st
    ELSE IF st.obj.m_continueAt = 2
    THEN Apply(LAMBDA s : GrouperLoopLeadingSeparator(s, bytes), GrouperOutputGroup(st, bytes))
    ELSE IF st.obj.m_continueAt = 1
            \/ (st.obj.m_inputPosition < Len(bytes) /\ (st.obj.m_counter = st.obj.m_groupSize \/ st.obj.m_counter = 0))
    THEN Apply(LAMBDA st1 :
                 IF st1.blocked THEN st1
                 ELSE Apply(LAMBDA s : GrouperLoopLeadingSeparator(s, bytes),
                            GrouperOutputGroup([st1 EXCEPT !.obj.m_counter = 0], bytes)),
               FilterOutput(st, 1, st.obj.m_separator, Len(st.obj.m_separator), 0,
                            Sink_Put2(st.down)))
    ELSE IF st.obj.m_inputPosition < Len(bytes)
    THEN Apply(LAMBDA s : GrouperLoopLeadingSeparator(s, bytes), GrouperOutputGroup(st, bytes))
    ELSE st

\* The while (m_inputPosition < length) loop of Put2, entered at its top
\* or, when m_continueAt is 1 or 2, at that Output of its body; the Output
\* of the separator is followed by the Output of the group
RECURSIVE GrouperLoop(_, _)
GrouperLoop(st, bytes) ==
    IF st.blocked THEN st
    ELSE IF st.obj.m_continueAt = 2
    THEN Apply(LAMBDA s : GrouperLoop(s, bytes), GrouperOutputGroup(st, bytes))
    ELSE IF st.obj.m_continueAt = 1
            \/ (st.obj.m_inputPosition < Len(bytes) /\ st.obj.m_counter = st.obj.m_groupSize)
    THEN Apply(LAMBDA st1 :
                 IF st1.blocked THEN st1
                 ELSE Apply(LAMBDA s : GrouperLoop(s, bytes),
                            GrouperOutputGroup([st1 EXCEPT !.obj.m_counter = 0], bytes)),
               FilterOutput(st, 1, st.obj.m_separator, Len(st.obj.m_separator), 0,
                            Sink_Put2(st.down)))
    ELSE IF st.obj.m_inputPosition < Len(bytes)
    THEN Apply(LAMBDA s : GrouperLoop(s, bytes), GrouperOutputGroup(st, bytes))
    ELSE st

\* Put2 without the reset of m_counter at the end of a message
Grouper_Put2KeepCounter(g, bytes, messageEnd, down) ==
    Apply(LAMBDA st1 :
            IF st1.blocked THEN st1
            ELSE IF g.m_continueAt = 4 \/ messageEnd # 0
            THEN Apply(LAMBDA st2 : IF st2.blocked THEN st2 ELSE st2,
                       FilterOutput(st1, 4, g.m_terminator, Len(g.m_terminator),
                                    messageEnd, Sink_Put2(st1.down)))
            ELSE st1,
    Apply(LAMBDA st0 :
            IF g.m_continueAt = 4 THEN st0
            ELSE IF g.m_groupSize # 0 THEN GrouperLoop(st0, bytes)
            ELSE FilterOutput(st0, 3, bytes, Len(bytes), 0, Sink_Put2(down)),
          FilterCall(g, down)))

\* Put2(begin, length, messageEnd, blocking) of a grouper attached to the
\* sink `down`: the call as it returns. With m_continueAt = 4 the switch of
\* FILTER_BEGIN enters the if (messageEnd) block at its Output.
Grouper_Put2(g, bytes, messageEnd, down) ==
    Apply(LAMBDA st1 :
            IF st1.blocked THEN st1
            ELSE IF g.m_continueAt = 4 \/ messageEnd # 0
            THEN Apply(LAMBDA st2 : IF st2.blocked THEN st2 ELSE [st2 EXCEPT !.obj.m_counter = 0],
                       FilterOutput(st1, 4, g.m_terminator, Len(g.m_terminator),
                                    messageEnd, Sink_Put2(st1.down)))
            ELSE st1,
    Apply(LAMBDA st0 :
            IF g.m_continueAt = 4 THEN st0
            ELSE IF g.m_groupSize # 0 THEN GrouperLoop(st0, bytes)
            ELSE FilterOutput(st0, 3, bytes, Len(bytes), 0, Sink_Put2(down)),
          FilterCall(g, down)))

----------------------------------------------------------------------------
(* Rijndael: tables *)

\* The forward S-box of the AES standard (declared in rijndael.h, defined
\* outside this file): Se[x] of the source is Se[x + 1].
Se ==
    << 99, 124, 119, 123, 242, 107, 111, 197,  48,   1, 103,  43, 254, 215, 171, 118,
       202, 130, 201, 125, 250,  89,  71, 240, 173, 212, 162, 175, 156, 164, 114, 192,
       183, 253, 147,  38,  54,  63, 247, 204,  52, 165, 229, 241, 113, 216,  49,  21,
         4, 199,  35, 195,  24, 150,   5, 154,   7,  18, 128, 226, 235,  39, 178, 117,
         9, 131,  44,  26,  27, 110,  90, 160,  82,  59, 214, 179,  41, 227,  47, 132,
        83, 209,   0, 237,  32, 252, 177,  91, 106, 203, 190,  57,  74,  76,  88, 207,
       208, 239, 170, 251,  67,  77,  51, 133,  69, 249,   2, 127,  80,  60, 159, 168,
        81, 163,  64, 143, 146, 157,  56, 245, 188, 182, 218,  33,  16, 255, 243, 210,
       205,  12,  19, 236,  95, 151,  68,  23, 196, 167, 126,  61, 100,  93,  25, 115,
        96, 129,  79, 220,  34,  42, 144, 136,  70, 238, 184,  20, 222,  94,  11, 219,
       224,  50,  58,  10,  73,   6,  36,  92, 194, 211, 172,  98, 145, 149, 228, 121,
       231, 200,  55, 109, 141, 213,  78, 169, 108,  86, 244, 234, 101, 122, 174,   8,
       186, 120,  37,  46,  28, 166, 180, 198, 232, 221, 116,  31,  75, 189, 139, 138,
       112,  62, 181, 102,  72,   3, 246,  14,  97,  53,  87, 185, 134, 193,  29, 158,
       225, 248, 152,  17, 105, 217, 142, 148, 155,  30, 135, 233, 206,  85,  40, 223,
       140, 161, 137,  13, 191, 230,  66, 104,  65, 153,  45,  15, 176,  84, 187,  22 >>

\* The inverse S-box: Sd[x] of the source is Sd[x + 1].
Sd ==
    << 82,   9, 106, 213,  48,  54, 165,  56, 191,  64, 163, 158, 129, 243, 215, 251,
       124, 227,  57, 130, 155,  47, 255, 135,  52, 142,  67,  68, 196, 222, 233, 203,
        84, 123, 148,  50, 166, 194,  35,  61, 238,  76, 149,  11,  66, 250, 195,  78,
         8,  46, 161, 102,  40, 217,  36, 178, 118,  91, 162,  73, 109, 139, 209,  37,
       114, 248, 246, 100, 134, 104, 152,  22, 212, 164,  92, 204,  93, 101, 182, 146,
       108, 112,  72,  80, 253, 237, 185, 218,  94,  21,  70,  87, 167, 141, 157, 132,
       144, 216, 171,   0, 140, 188, 211,  10, 247, 228,  88,   5, 184, 179,  69,   6,
       208,  44,  30, 143, 202,  63,  15,   2, 193, 175, 189,   3,   1,  19, 138, 107,
        58, 145,  17,  65,  79, 103, 220, 234, 151, 242, 207, 206, 240, 180, 230, 115,
       150, 172, 116,  34, 231, 173,  53, 133, 226, 249,  55, 232,  28, 117, 223, 110,
        71, 241,  26, 113,  29,  41, 197, 137, 111, 183,  98,  14, 170,  24, 190,  27,
       252,  86,  62,  75, 198, 210, 121,  32, 154, 219, 192, 254, 120, 205,  90, 244,
        31, 221, 168,  51, 136,   7, 199,  49, 177,  18,  16,  89,  39, 128, 236,  95,
        96,  81, 127, 169,  25, 181,  74,  13,  45, 229, 122, 159, 147, 201, 156, 239,
       160, 224,  59,  77, 174,  42, 245, 176, 200, 235, 187,  60, 131,  83, 153,  97,
        23,  43,   4, 126, 186, 119, 214,  38, 225, 105,  20,  99,  85,  33,  12, 125 >>

\* The round constants, each the top byte of the 32-bit value rcon[i]
\* (powers of x in GF(2^8), left-justified in the word).
rconTop ==
    << 1,   2,   4,   8,  16,  32,  64, 128,  27,  54 >>

rcon(i) == <<0, 0, 0, rconTop[i + 1]>>

----------------------------------------------------------------------------
(* Rijndael: 32-bit words and the Te/Td tables *)

\* a ^ b on word32
WXor(a, b) ==
    <<BitXor(a[1], b[1]), BitXor(a[2], b[2]), BitXor(a[3], b[3]), BitXor(a[4], b[4])>>

\* a | b on word32
WOr(a, b) ==
    <<BitOr(a[1], b[1]), BitOr(a[2], b[2]), BitOr(a[3], b[3]), BitOr(a[4], b[4])>>

ZeroWord == <<0, 0, 0, 0>>

\* rotrFixed(y, n) for n a multiple of 8
RECURSIVE rotrFixed(_, _)
rotrFixed(y, n) ==
    IF n = 0 THEN y ELSE rotrFixed(<<y[2], y[3], y[4], y[1]>>, n - 8)

\* ByteReverse of one word32, as ConditionalByteReverse(BIG_ENDIAN_ORDER, ..)
\* does on a little-endian target
ByteReverse(w) == <<w[4], w[3], w[2], w[1]>>

\* ((const word32 *)block)[j] on a little-endian target
BlockWord(block, j) ==
    <<block[4 * j + 1], block[4 * j + 2], block[4 * j + 3], block[4 * j + 4]>>

\* the four word32 of a 16-byte block
BlockWords(block) ==
    <<BlockWord(block, 0), BlockWord(block, 1), BlockWord(block, 2), BlockWord(block, 3)>>

\* the 16 bytes in memory of four word32
WordsBytes(w) == w[1] \o w[2] \o w[3] \o w[4]

\* A variant of f2 without the reduction by 0x11b: the bit shifted out of
\* the byte is dropped
f2Unreduced(x) == (x * 2) % 256

\* #define f2(x), f4(x), f8(x): x a byte, 0x11b = 283
f2(x) == BitXor(x * 2, (ShiftR(x, 7) % 2) * 283)

f4(x) ==
    BitXor(BitXor(x * 4, (ShiftR(x, 6) % 2) * 283),
           ((ShiftR(x, 6) \div 2) % 2) * 2 * 283)

f8(x) ==
    BitXor(BitXor(BitXor(x * 8, (ShiftR(x, 5) % 2) * 283),
                  ((ShiftR(x, 5) \div 2) % 2) * 2 * 283),
           ((ShiftR(x, 5) \div 4) % 2) * 4 * 283)

f3(x) == BitXor(f2(x), x)

f9(x) == BitXor(f8(x), x)

fb(x) == BitXor(BitXor(f8(x), f2(x)), x)

fd(x) == BitXor(BitXor(f8(x), f4(x)), x)

fe(x) == BitXor(BitXor(f8(x), f4(x)), f2(x))

\* FillEncTable without CRYPTOPP_ALLOW_UNALIGNED_DATA_ACCESS:
\* word32 Te[256*4], Te[i+j*256] = rotrFixed(y, 8*j), as a sequence
FillEncTableWords ==
    Tabulate([k \in 0..1023 |->
                 LET x == Se[(k % 256) + 1]
                     y == <<f3(x), x, x, f2(x)>>
                 IN  rotrFixed(y, 8 * (k \div 256))], 0, 1023)

\* FillEncTable with CRYPTOPP_ALLOW_UNALIGNED_DATA_ACCESS: word64 Te[256] (two
\* more entries, both zero, when the assembly is built), each entry the 8
\* bytes in memory of word64(y | f3(x))<<32 | y, y = x<<8 | x<<16 | f2(x)<<24
FillEncTableBytes ==
    Tabulate([k \in 0..257 |->
                 IF k >= 256 THEN <<0, 0, 0, 0, 0, 0, 0, 0>>
                 ELSE LET x == Se[k + 1]
                      IN  <<0, x, x, f2(x), f3(x), x, x, f2(x)>>], 0, 257)

\* FillDecTable: word32 Td[256*4], Td[i+j*256] = rotrFixed(y, 8*j)
FillDecTable ==
    Tabulate([k \in 0..1023 |->
                 LET x == Sd[(k % 256) + 1]
                     y == <<fb(x), fd(x), f9(x), fe(x)>>
                 IN  rotrFixed(y, 8 * (k \div 256))], 0, 1023)

\* Te and Td are static arrays: all zero until filled. Entry k (from 0) of a
\* filled table is element k + 1 of the sequence.
TeWord(filled, k) == IF filled THEN FillEncTableWords[k + 1] ELSE ZeroWord

TeBytes(filled, k) ==
    IF filled THEN FillEncTableBytes[k + 1] ELSE <<0, 0, 0, 0, 0, 0, 0, 0>>

TdWord(filled, k) == IF filled THEN FillDecTable[k + 1] ELSE ZeroWord

\* *(word32 *)((byte *)Te + x*8 + offset), offset in 1..4
TeUnaligned(filled, x, offset) == SubSeq(TeBytes(filled, x), offset + 1, offset + 4)

\* ((byte *)(Te+x))[1]: byte 1 of the entry in either layout
TeByte1(build, filled, x) ==
    IF build.unaligned THEN TeBytes(filled, x)[2] ELSE TeWord(filled, x)[2]

\* The TL(i, x) of the first round on a little-endian target
TLFirst(build, filled, i, x) ==
    IF build.unaligned THEN TeUnaligned(filled, x, ((6 - i) % 4) + 1)
    ELSE rotrFixed(TeWord(filled, x), (3 - i) * 8)

\* The TL(i, x) of the full rounds
TLFull(build, filled, i, x) ==
    IF build.unaligned THEN TeUnaligned(filled, x, ((i + 3) % 4) + 1)
    ELSE TeWord(filled, i * 256 + x)

\* The TL(i, x) in force: that of the first round, or that of the full rounds
TL(build, filled, first, i, x) ==
    IF first THEN TLFirst(build, filled, i, x) ELSE TLFull(build, filled, i, x)

----------------------------------------------------------------------------
(* Rijndael::Base: the key schedule *)

\* The key-length check UncheckedSetKey makes first. Its body is outside this
\* file; it is modelled as the key schedule's documented failure: the call
\* fails with InvalidKeyLength unless keylen is 16, 24 or 32.
AssertValidKeyLength(keylen) == keylen \in {16, 24, 32}

\* GetUserKey(BIG_ENDIAN_ORDER, rk, keylen/4, userKey, keylen): word i of the
\* output is the big-endian value of the key bytes 4i .. 4i+3
GetUserKey(rk, outlen, userKey) ==
    Array([k \in 1..Len(rk) |->
              IF k <= outlen
              THEN <<userKey[4 * k], userKey[4 * k - 1],
                     userKey[4 * k - 2], userKey[4 * k - 3]>>
              ELSE rk[k]], Len(rk))

\* A Rijndael object before any SetKey
UnkeyedObject == [m_rounds |-> 0, m_key |-> <<>>]

\* Se[GETBYTE(temp, k)] as a byte
SeByte(temp, k) == Se[temp[k + 1] + 1]

\* The statements of one pass of the while (true) loop; key is the array
\* m_key, rk the offset of the pointer rk into it.
\* temp = rk[keylen/4-1]; rk[keylen/4] = rk[0] ^ (Se[..] << 24 ^ ..) ^ *(rc++);
\* n is keylen/4, rc the number of round constants used so far
StoreFirst(key, rk, n, rc) ==
    [key EXCEPT ![rk + n + 1] =
        WXor(WXor(key[rk + 1],
                  <<SeByte(key[rk + n], 3), SeByte(key[rk + n], 0),
                    SeByte(key[rk + n], 1), SeByte(key[rk + n], 2)>>),
             rcon(rc))]

\* rk[dst] = rk[a] ^ rk[b];
StoreXor(key, rk, dst, a, b) ==
    [key EXCEPT ![rk + dst + 1] = WXor(key[rk + a + 1], key[rk + b + 1])]

\* temp = rk[11]; rk[12] = rk[4] ^ (Se[GETBYTE(temp, 3)] << 24 ^ ..);
StoreSub(key, rk) ==
    [key EXCEPT ![rk + 13] =
        WXor(key[rk + 5],
             <<SeByte(key[rk + 12], 0), SeByte(key[rk + 12], 1),
               SeByte(key[rk + 12], 2), SeByte(key[rk + 12], 3)>>)]

\* The four stores every pass makes: rk[keylen/4] .. rk[keylen/4+3]
KeyExpansionPass(key, rk, n, rc) ==
    StoreXor(StoreXor(StoreXor(StoreFirst(key, rk, n, rc),
                               rk, n + 1, 1, n),
                      rk, n + 2, 2, n + 1),
             rk, n + 3, 3, n + 2)

\* The stores after the break test: if (keylen == 24) .. else if (keylen == 32) ..
KeyExpansionTail(key, rk, keylen) ==
    IF keylen = 24
    THEN StoreXor(StoreXor(key, rk, 10, 4, 9), rk, 11, 5, 10)
    ELSE IF keylen = 32
    THEN StoreXor(StoreXor(StoreXor(StoreSub(key, rk),
                                    rk, 13, 5, 12),
                           rk, 14, 6, 13),
                  rk, 15, 7, 14)
    ELSE key

\* The while (true) loop from one pass on: rk is the offset of the pointer rk
\* into m_key, rc the number of round constants used so far. The result is
\* the key array when the loop is left.
RECURSIVE KeyExpansionLoop(_, _, _, _)
RECURSIVE KeyExpansionBreak(_, _, _, _)
KeyExpansionLoop(key, rk, rc, keylen) ==
    KeyExpansionBreak(KeyExpansionPass(key, rk, keylen \div 4, rc), rk, rc, keylen)

\* if (rk + keylen/4 + 4 == m_key.end()) break; ...; rk += keylen/4;
KeyExpansionBreak(key, rk, rc, keylen) ==
    IF rk + keylen \div 4 + 4 = Len(key)
    THEN key
    ELSE KeyExpansionLoop(KeyExpansionTail(key, rk, keylen),
                          rk + keylen \div 4, rc + 1, keylen)

\* The word indices one pass stores to before its break test,
\* rk[keylen/4] .. rk[keylen/4+3], as indices into m_key
PassStores(rk, keylen) == (rk + keylen \div 4)..(rk + keylen \div 4 + 3)

\* The word indices a pass stores to after its break test: rk[10], rk[11]
\* for keylen 24; rk[12] .. rk[15] for keylen 32
TailStores(rk, keylen) ==
    IF keylen = 24 THEN (rk + 10)..(rk + 11)
    ELSE IF keylen = 32 THEN (rk + 12)..(rk + 15)
    ELSE {}

\* A variant of KeyExpansionStores without the stores after the break test
RECURSIVE KeyExpansionStoresNoTail(_, _, _, _)
KeyExpansionStoresNoTail(end, rk, keylen, stores) ==
    IF \E k \in PassStores(rk, keylen) : k >= end
    THEN [stores |-> stores, exit |-> "outside", rk |-> rk]
    ELSE IF rk + keylen \div 4 + 4 = end
    THEN [stores |-> stores \cup PassStores(rk, keylen), exit |-> "break", rk |-> rk]
    ELSE KeyExpansionStoresNoTail(end, rk + keylen \div 4, keylen,
                                  stores \cup PassStores(rk, keylen))

\* The while (true) loop followed by the places it stores to: end is the
\* length of m_key (m_key.end() as a word index), rk the offset of the
\* pointer rk, stores the indices stored to so far. A store outside the
\* array is undefined; the loop is followed no further then (exit is
\* "outside"). Otherwise the loop is left by its break, and rk is the
\* pointer's offset then.
RECURSIVE KeyExpansionStores(_, _, _, _)
KeyExpansionStores(end, rk, keylen, stores) ==
    IF \E k \in PassStores(rk, keylen) : k >= end
    THEN [stores |-> stores, exit |-> "outside", rk |-> rk]
    ELSE IF rk + keylen \div 4 + 4 = end
    THEN [stores |-> stores \cup PassStores(rk, keylen), exit |-> "break", rk |-> rk]
    ELSE IF \E k \in TailStores(rk, keylen) : k >= end
    THEN [stores |-> stores \cup PassStores(rk, keylen), exit |-> "outside", rk |-> rk]
    ELSE KeyExpansionStores(end, rk + keylen \div 4, keylen,
                            stores \cup PassStores(rk, keylen) \cup TailStores(rk, keylen))

\* A variant of InvertKeyOrder that swaps the first word of each round key
\* alone
RECURSIVE InvertKeyOrderFirstWord(_, _, _)
InvertKeyOrderFirstWord(key, i, j) ==
    IF i < j
    THEN InvertKeyOrderFirstWord(
            [key EXCEPT ![i + 1] = key[j + 1], ![j + 1] = key[i + 1]],
            i + 4, j - 4)
    ELSE key

\* for (i = 0, j = 4*m_rounds; i < j; i += 4, j -= 4): swap the round keys at
\* word offsets i and j
RECURSIVE InvertKeyOrder(_, _, _)
InvertKeyOrder(key, i, j) ==
    IF i < j
    THEN InvertKeyOrder(
            [key EXCEPT ![i + 1] = key[j + 1], ![j + 1] = key[i + 1],
                        ![i + 2] = key[j + 2], ![j + 2] = key[i + 2],
                        ![i + 3] = key[j + 3], ![j + 3] = key[i + 3],
                        ![i + 4] = key[j + 4], ![j + 4] = key[i + 4]],
            i + 4, j - 4)
    ELSE key

\* Td[0*256+Se[GETBYTE(w,3)]] ^ Td[1*256+Se[GETBYTE(w,2)]] ^
\* Td[2*256+Se[GETBYTE(w,1)]] ^ Td[3*256+Se[GETBYTE(w,0)]]
InvMixColumnWord(tdFilled, w) ==
    WXor(WXor(TdWord(tdFilled, SeByte(w, 3)),
              TdWord(tdFilled, 256 + SeByte(w, 2))),
         WXor(TdWord(tdFilled, 512 + SeByte(w, 1)),
              TdWord(tdFilled, 768 + SeByte(w, 0))))

\* for (i = 1; i < m_rounds; i++) { rk += 4; rk[0..3] = ... }
InvMixColumnKeys(tdFilled, key, m_rounds) ==
    Array([i \in 1..Len(key) |->
              IF i > 4 /\ i <= 4 * m_rounds
              THEN InvMixColumnWord(tdFilled, key[i])
              ELSE key[i]], Len(key))

\* ConditionalByteReverse(BIG_ENDIAN_ORDER, p, p, 16) on the four words at
\* word offset `at`
ByteReverseAt(key, at) ==
    Array([i \in 1..Len(key) |->
              IF i > at /\ i <= at + 4 THEN ByteReverse(key[i]) ELSE key[i]],
          Len(key))

\* The key array after the key expansion and, for a decryption object, the
\* inversion of the round keys
DirectedKey(expanded, forward, tdFilled, m_rounds) ==
    IF forward THEN expanded
    ELSE Apply(LAMBDA inverted : InvMixColumnKeys(tdFilled, inverted, m_rounds),
               InvertKeyOrder(expanded, 0, 4 * m_rounds))

\* UncheckedSetKey after the key-length check: m_rounds, the key array and
\* the table flags of a call that does not throw. junk is what m_key.New
\* leaves in the fresh array.
KeySchedule(userKey, keylen, forward, teFilled, tdFilled, junk) ==
    LET m_rounds == keylen \div 4 + 6
        tdNow == IF forward THEN tdFilled ELSE TRUE
    IN  [obj |-> [m_rounds |-> m_rounds,
                  m_key |->
                      Apply(LAMBDA k4 : ByteReverseAt(k4, m_rounds * 4),
                      Apply(LAMBDA k3 : ByteReverseAt(k3, 0),
                      Apply(LAMBDA k2 : DirectedKey(k2, forward, tdNow, m_rounds),
                      Apply(LAMBDA k1 : KeyExpansionLoop(k1, 0, 0, keylen),
                            GetUserKey(Fill(<<junk, junk, junk, junk>>,
                                            4 * (m_rounds + 1)),
                                       keylen \div 4, userKey)))))],
         thrown |-> "none",
         s_TeFilled |-> IF forward THEN TRUE ELSE teFilled,
         s_TdFilled |-> tdNow]

\* A variant of UncheckedSetKey that sets m_rounds before it checks the key
\* length
UncheckedSetKeyRoundsFirst(obj, userKey, keylen, forward, teFilled, tdFilled, junk) ==
    IF ~AssertValidKeyLength(keylen)
    THEN [obj |-> [obj EXCEPT !.m_rounds = keylen \div 4 + 6],
          thrown |-> "InvalidKeyLength",
          s_TeFilled |-> teFilled, s_TdFilled |-> tdFilled]
    ELSE KeySchedule(userKey, keylen, forward, teFilled, tdFilled, junk)

\* UncheckedSetKey(userKey, keylen, params) on the object obj, in the
\* direction `forward` = IsForwardTransformation(). The result: the object
\* afterwards, what the call threw, and the static flags s_TeFilled and
\* s_TdFilled afterwards.
UncheckedSetKey(obj, userKey, keylen, forward, teFilled, tdFilled, junk) ==
    IF ~AssertValidKeyLength(keylen)
    THEN [obj |-> obj, thrown |-> "InvalidKeyLength",
          s_TeFilled |-> teFilled, s_TdFilled |-> tdFilled]
    ELSE KeySchedule(userKey, keylen, forward, teFilled, tdFilled, junk)

----------------------------------------------------------------------------
(* Rijndael: the single-block engine *)

\* The four words at word offset rk of the key array
KeyWords(key, rk) == <<key[rk + 1], key[rk + 2], key[rk + 3], key[rk + 4]>>

\* u = 0; for (...) u &= table word; the value of u after the preload loop
PreloadU == ZeroWord

\* s0 |= u; s1 |= u; s2 |= u; s3 |= u;
OrU(w) ==
    <<WOr(w[1], PreloadU), WOr(w[2], PreloadU), WOr(w[3], PreloadU), WOr(w[4], PreloadU)>>

\* s0 = *(const word32 *)inBlock ^ rk[0]; ... s3
FirstKey(key, inBlock) ==
    <<WXor(BlockWord(inBlock, 0), key[1]), WXor(BlockWord(inBlock, 1), key[2]),
      WXor(BlockWord(inBlock, 2), key[3]), WXor(BlockWord(inBlock, 3), key[4])>>

\* The words s0..s3 of the C++ engines after the first round key and the
\* preload
FirstWords(key, inBlock) == OrU(FirstKey(key, inBlock))

\* QUARTER_ROUND(t, a, b, c, d) of the encryption rounds: w holds the four
\* words a, b, c, d name (by position 1..4); first tells the TL in force
EncQuarterRound(build, filled, first, w, t, a, b, c, d) ==
    [w EXCEPT ![a] = WXor(@, TL(build, filled, first, 3, t[1])),
              ![b] = WXor(@, TL(build, filled, first, 2, t[2])),
              ![c] = WXor(@, TL(build, filled, first, 1, t[3])),
              ![d] = WXor(@, TL(build, filled, first, 0, t[4]))]

\* The four QUARTER_ROUND1 of the first round (little-endian:
\* QUARTER_ROUND1(t, a, b, c, d) is QUARTER_ROUND(t, d, c, b, a)); s holds
\* s0..s3, t holds t0..t3 as loaded from the key
EncFirstRound(build, filled, s, t) ==
    EncQuarterRound(build, filled, TRUE,
        EncQuarterRound(build, filled, TRUE,
            EncQuarterRound(build, filled, TRUE,
                EncQuarterRound(build, filled, TRUE, t, s[4], 4, 3, 2, 1),
                s[3], 3, 2, 1, 4),
            s[2], 2, 1, 4, 3),
        s[1], 1, 4, 3, 2)

\* Four QUARTER_ROUND of a full round: the words `from` are consumed into
\* the words `into` (already loaded from the key)
EncRound(build, filled, into, from) ==
    EncQuarterRound(build, filled, FALSE,
        EncQuarterRound(build, filled, FALSE,
            EncQuarterRound(build, filled, FALSE,
                EncQuarterRound(build, filled, FALSE, into, from[4], 1, 2, 3, 4),
                from[3], 4, 1, 2, 3),
            from[2], 3, 4, 1, 2),
        from[1], 2, 3, 4, 1)

\* One pass of do { ... rk += 8; } while (--r): st = [t, rk, r] holds the
\* words t0..t3, the offset of rk and r
EncPass(build, filled, key, st) ==
    [t |-> Apply(LAMBDA s : EncRound(build, filled, KeyWords(key, st.rk + 4), s),
                 EncRound(build, filled, KeyWords(key, st.rk), st.t)),
     rk |-> st.rk + 8, r |-> st.r - 1]

\* do { ... } while (--r): the state after the last pass
RECURSIVE EncRounds(_, _, _, _)
RECURSIVE EncWhile(_, _, _, _)
EncRounds(build, filled, key, st) ==
    EncWhile(build, filled, key, EncPass(build, filled, key, st))

\* while (--r), on the state after a pass (r already decremented)
EncWhile(build, filled, key, st) ==
    IF st.r = 0 THEN st ELSE EncRounds(build, filled, key, st)

\* The final QUARTER_ROUND: tempBlock[a] = ((byte *)(Te+byte(t)))[1]; ...
EncLastQuarter(build, filled, tempBlock, t, a, b, c, d) ==
    [tempBlock EXCEPT ![a + 1] = TeByte1(build, filled, t[1]),
                      ![b + 1] = TeByte1(build, filled, t[2]),
                      ![c + 1] = TeByte1(build, filled, t[3]),
                      ![d + 1] = TeByte1(build, filled, t[4])]

\* The four final QUARTER_ROUND on the state the rounds leave: the 16 bytes
\* of tempBlock and the offset of the last round key
EncLastRound(build, filled, st) ==
    [tempBlock |->
        EncLastQuarter(build, filled,
            EncLastQuarter(build, filled,
                EncLastQuarter(build, filled,
                    EncLastQuarter(build, filled, Fill(0, 16), st.t[3], 15, 2, 5, 8),
                    st.t[2], 11, 14, 1, 4),
                st.t[1], 7, 10, 13, 0),
            st.t[4], 3, 6, 9, 12),
     rk |-> st.rk]

\* obw[j] = tbw[j] ^ xbw[j] ^ rk[j] (xorBlock = <<>> is the null pointer)
OutWord(tempBlock, xorBlock, key, rk, j) ==
    IF xorBlock # <<>>
    THEN WXor(WXor(BlockWord(tempBlock, j), BlockWord(xorBlock, j)), key[rk + j + 1])
    ELSE WXor(BlockWord(tempBlock, j), key[rk + j + 1])

\* The 16 bytes stored through outBlock: last = [tempBlock, rk]
XorOut(last, xorBlock, key) ==
    WordsBytes(<<OutWord(last.tempBlock, xorBlock, key, last.rk, 0),
                 OutWord(last.tempBlock, xorBlock, key, last.rk, 1),
                 OutWord(last.tempBlock, xorBlock, key, last.rk, 2),
                 OutWord(last.tempBlock, xorBlock, key, last.rk, 3)>>)

\* The rounds of an encryption from the words s0..s3 (the input block after
\* the first round key): [tempBlock, rk], the 16 bytes of the last round
\* before the last round key, and the offset of that key
EncRoundsFrom(build, filled, obj, s) ==
    Apply(LAMBDA st : EncLastRound(build, filled, st),
    Apply(LAMBDA t : EncRounds(build, filled, obj.m_key,
                               [t |-> t, rk |-> 8, r |-> obj.m_rounds \div 2 - 1]),
    Apply(LAMBDA s0123 : EncFirstRound(build, filled, s0123, KeyWords(obj.m_key, 4)),
          s)))

\* The C++ body of Rijndael::Enc::ProcessAndXorBlock (after the dispatch to
\* the assembly): the 16 bytes stored through outBlock
EncProcessPortable(build, filled, obj, inBlock, xorBlock) ==
    Apply(LAMBDA last : XorOut(last, xorBlock, obj.m_key),
          EncRoundsFrom(build, filled, obj, FirstWords(obj.m_key, inBlock)))

\* QUARTER_ROUND(t, a, b, c, d) of the first decryption round (little-endian)
DecFirstQuarter(filled, w, t, a, b, c, d) ==
    [w EXCEPT ![d] = WXor(@, TdWord(filled, t[1])),
              ![c] = WXor(@, rotrFixed(TdWord(filled, t[2]), 8)),
              ![b] = WXor(@, rotrFixed(TdWord(filled, t[3]), 16)),
              ![a] = WXor(@, rotrFixed(TdWord(filled, t[4]), 24))]

\* QUARTER_ROUND(t, a, b, c, d) of the full decryption rounds
DecQuarterRound(filled, w, t, a, b, c, d) ==
    [w EXCEPT ![a] = WXor(@, TdWord(filled, 3 * 256 + t[1])),
              ![b] = WXor(@, TdWord(filled, 2 * 256 + t[2])),
              ![c] = WXor(@, TdWord(filled, 1 * 256 + t[3])),
              ![d] = WXor(@, TdWord(filled, t[4]))]

\* The four QUARTER_ROUND of the first decryption round
DecFirstRound(filled, s, t) ==
    DecFirstQuarter(filled,
        DecFirstQuarter(filled,
            DecFirstQuarter(filled,
                DecFirstQuarter(filled, t, s[4], 3, 2, 1, 4),
                s[3], 2, 1, 4, 3),
            s[2], 1, 4, 3, 2),
        s[1], 4, 3, 2, 1)

\* Four QUARTER_ROUND of a full decryption round
DecRound(filled, into, from) ==
    DecQuarterRound(filled,
        DecQuarterRound(filled,
            DecQuarterRound(filled,
                DecQuarterRound(filled, into, from[4], 3, 2, 1, 4),
                from[3], 2, 1, 4, 3),
            from[2], 1, 4, 3, 2),
        from[1], 4, 3, 2, 1)

\* One pass of do { ... rk += 8; } while (--r), as in the encryption
DecPass(filled, key, st) ==
    [t |-> Apply(LAMBDA s : DecRound(filled, KeyWords(key, st.rk + 4), s),
                 DecRound(filled, KeyWords(key, st.rk), st.t)),
     rk |-> st.rk + 8, r |-> st.r - 1]

RECURSIVE DecRounds(_, _, _)
RECURSIVE DecWhile(_, _, _)
DecRounds(filled, key, st) == DecWhile(filled, key, DecPass(filled, key, st))

\* while (--r), on the state after a pass
DecWhile(filled, key, st) == IF st.r = 0 THEN st ELSE DecRounds(filled, key, st)

\* The final QUARTER_ROUND: tempBlock[a] = Sd[byte(t)]; ...
DecLastQuarter(tempBlock, t, a, b, c, d) ==
    [tempBlock EXCEPT ![a + 1] = Sd[t[1] + 1],
                      ![b + 1] = Sd[t[2] + 1],
                      ![c + 1] = Sd[t[3] + 1],
                      ![d + 1] = Sd[t[4] + 1]]

\* The four final QUARTER_ROUND on the words t0..t3
DecLastBytes(t) ==
    DecLastQuarter(
        DecLastQuarter(
            DecLastQuarter(
                DecLastQuarter(Fill(0, 16), t[3], 7, 2, 13, 8),
                t[2], 3, 14, 9, 4),
            t[1], 15, 10, 5, 0),
        t[4], 11, 6, 1, 12)

\* The second preload (t0 |= u; ...) and the final QUARTER_ROUND on the state
\* the rounds leave
DecLastRound(st) == [tempBlock |-> DecLastBytes(OrU(st.t)), rk |-> st.rk]

\* Rijndael::Dec::ProcessAndXorBlock: the 16 bytes stored through outBlock
DecProcessAndXorBlock(filled, obj, inBlock, xorBlock) ==
    Apply(LAMBDA last : XorOut(last, xorBlock, obj.m_key),
    Apply(LAMBDA st : DecLastRound(st),
    Apply(LAMBDA t : DecRounds(filled, obj.m_key,
                               [t |-> t, rk |-> 8, r |-> obj.m_rounds \div 2 - 1]),
    Apply(LAMBDA s : DecFirstRound(filled, s, KeyWords(obj.m_key, 4)),
          FirstWords(obj.m_key, inBlock)))))

----------------------------------------------------------------------------
(* Rijndael::Enc: the bulk engine *)

\* The block size of the cipher and the flags of AdvancedProcessBlocks, as
\* the class declarations give them
BLOCKSIZE == 16

BT_InBlockIsCounter == 1

BT_DontIncrementInOutPointers == 2

BT_XorInput == 4

\* flags & f, for f a power of two
HasFlag(flags, f) == (flags \div f) % 2 = 1

\* a ^ b on byte strings of one length
XorBytes(a, b) == Array([i \in 1..Len(a) |-> BitXor(a[i], b[i])], Len(a))

\* The 16 bytes at a pointer: p = [buf, off], buf names the caller's input
\* blocks, the caller's xor blocks or the 16 zero bytes at Te+256
Load16(mem, p) ==
    IF p.buf = "zeros" THEN Fill(0, 16)
    ELSE SubSeq(mem[p.buf], p.off + 1, p.off + 16)

\* The buffer with the 16 bytes at offset off replaced
Store16(buf, off, bytes) ==
    SubSeq(buf, 1, off) \o bytes \o SubSeq(buf, off + 17, Len(buf))

\* A variant of BulkLocals in which DontIncrementInOutPointers holds the xor
\* pointers too
BulkLocalsAllFixed(obj, xorBlocks, length, flags) ==
    LET xorIn == HasFlag(flags, BT_XorInput) /\ xorBlocks # <<>>
        xorOut == ~(HasFlag(flags, BT_XorInput) \/ xorBlocks = <<>>)
        fixed == HasFlag(flags, BT_DontIncrementInOutPointers)
        counter == IF HasFlag(flags, BT_InBlockIsCounter) THEN 1 ELSE 0
        keysToCopy == obj.m_rounds - (IF counter = 1 THEN 3 ELSE 2)
    IN  [ inBlocks |-> [buf |-> "in", off |-> 0],
          inXorBlocks |-> IF xorIn THEN [buf |-> "xor", off |-> 0]
                          ELSE [buf |-> "zeros", off |-> 0],
          outXorBlocks |-> IF xorOut THEN [buf |-> "xor", off |-> 0]
                           ELSE [buf |-> "zeros", off |-> 0],
          outBlocks |-> 0,
          inIncrement |-> IF fixed THEN 0 ELSE BLOCKSIZE,
          inXorIncrement |-> IF xorIn /\ ~fixed THEN BLOCKSIZE ELSE 0,
          outXorIncrement |-> IF xorOut /\ ~fixed THEN BLOCKSIZE ELSE 0,
          outIncrement |-> IF fixed THEN 0 ELSE BLOCKSIZE,
          lengthAndCounterFlag |-> length - (length % 16) - counter,
          keysBegin |-> (12 - keysToCopy) * 16 ]

\* The struct Locals as AdvancedProcessBlocks fills it
BulkLocals(obj, xorBlocks, length, flags) ==
    LET xorIn == HasFlag(flags, BT_XorInput) /\ xorBlocks # <<>>
        xorOut == ~(HasFlag(flags, BT_XorInput) \/ xorBlocks = <<>>)
        counter == IF HasFlag(flags, BT_InBlockIsCounter) THEN 1 ELSE 0
        keysToCopy == obj.m_rounds - (IF counter = 1 THEN 3 ELSE 2)
    IN  [ inBlocks |-> [buf |-> "in", off |-> 0],
          inXorBlocks |-> IF xorIn THEN [buf |-> "xor", off |-> 0]
                          ELSE [buf |-> "zeros", off |-> 0],
          outXorBlocks |-> IF xorOut THEN [buf |-> "xor", off |-> 0]
                           ELSE [buf |-> "zeros", off |-> 0],
          outBlocks |-> 0,
          inIncrement |-> IF HasFlag(flags, BT_DontIncrementInOutPointers)
                          THEN 0 ELSE BLOCKSIZE,
          inXorIncrement |-> IF xorIn THEN BLOCKSIZE ELSE 0,
          outXorIncrement |-> IF xorOut THEN BLOCKSIZE ELSE 0,
          outIncrement |-> IF HasFlag(flags, BT_DontIncrementInOutPointers)
                           THEN 0 ELSE BLOCKSIZE,
          lengthAndCounterFlag |-> length - (length % 16) - counter,
          keysBegin |-> (12 - keysToCopy) * 16 ]

\* The counter block of block number n of a call in counter mode, after the
\* first round key: the counter is read once; its last byte and the byte
\* above it in the register (byte 15 of the first round key) are kept in
\* one 32-bit register that is incremented for every block, and the block's
\* byte 15 is the exclusive or of the register's two low bytes
CounterState(obj, counterBlock, n) ==
    LET reg == counterBlock[16] + 256 * obj.m_key[4][4] + n
    IN  BlockWords([WordsBytes(FirstKey(obj.m_key, counterBlock)) EXCEPT
                       ![16] = BitXor(reg % 256, (reg \div 256) % 256)])

\* The words the rounds of block number n start from: L is the struct Locals
AsmInput(obj, mem, L, n) ==
    IF L.lengthAndCounterFlag % 2 = 1
    THEN CounterState(obj, Load16(mem, [buf |-> "in", off |-> 0]), n)
    ELSE FirstKey(obj.m_key, XorBytes(Load16(mem, L.inBlocks), Load16(mem, L.inXorBlocks)))

\* Rijndael_Enc_AdvancedProcessBlocks(locals, k), x64: block number n is
\* encrypted and stored. mem holds the caller's buffers "in", "xor" and
\* "out"; st = [locals, out, log]: the locals, the output buffer and the
\* blocks processed so far, each with the places it read and wrote.
\* The round computations of the assembly on its registers are those of
\* EncRoundsFrom with the 8-byte table entries.
AsmBlock(filled, obj, mem, st, n) ==
    [locals |-> st.locals,
     out |-> Apply(LAMBDA last :
                       Store16(st.out, st.locals.outBlocks,
                               XorOut(last, Load16(mem, st.locals.outXorBlocks), obj.m_key)),
                   EncRoundsFrom([unaligned |-> TRUE, asm |-> TRUE, sse2 |-> TRUE],
                                 filled, obj, AsmInput(obj, mem, st.locals, n))),
     log |-> Append(st.log,
                    [in |-> IF st.locals.lengthAndCounterFlag % 2 = 1
                            THEN [buf |-> "in", off |-> 0]
                            ELSE st.locals.inBlocks,
                     inXor |-> st.locals.inXorBlocks,
                     outXor |-> st.locals.outXorBlocks,
                     out |-> st.locals.outBlocks, n |-> n])]

\* The per-block loop from block number n on
RECURSIVE AsmBlockLoop(_, _, _, _, _)
RECURSIVE AsmAdvance(_, _, _, _, _)
AsmBlockLoop(filled, obj, mem, st, n) ==
    AsmAdvance(filled, obj, mem, AsmBlock(filled, obj, mem, st, n), n)

\* A variant of AsmAdvance that leaves the output pointer where it is
AsmAdvanceKeepOut(filled, obj, mem, st, n) ==
    LET L == st.locals
        cx == L.lengthAndCounterFlag - 16
        L1 == [L EXCEPT !.outXorBlocks.off = @ + L.outXorIncrement]
        L3 == IF cx % 2 = 1
              THEN [L1 EXCEPT !.lengthAndCounterFlag = cx]
              ELSE [L1 EXCEPT !.lengthAndCounterFlag = cx,
                              !.inBlocks.off = @ + L.inIncrement,
                              !.inXorBlocks.off = @ + L.inXorIncrement]
    IN  IF cx <= 0
        THEN [st EXCEPT !.locals = L1]
        ELSE AsmBlockLoop(filled, obj, mem, [st EXCEPT !.locals = L3], n + 1)

\* After a block is stored: the output pointers are advanced, the length is
\* reduced by 16 and tested, and the input pointers are advanced (not in
\* counter mode) before the next block
AsmAdvance(filled, obj, mem, st, n) ==
    LET L == st.locals
        cx == L.lengthAndCounterFlag - 16
        L1 == [L EXCEPT !.outXorBlocks.off = @ + L.outXorIncrement,
                        !.outBlocks = @ + L.outIncrement]
        L3 == IF cx % 2 = 1
              THEN [L1 EXCEPT !.lengthAndCounterFlag = cx]
              ELSE [L1 EXCEPT !.lengthAndCounterFlag = cx,
                              !.inBlocks.off = @ + L.inIncrement,
                              !.inXorBlocks.off = @ + L.inXorIncrement]
    IN  IF cx <= 0
        THEN [st EXCEPT !.locals = L1]
        ELSE AsmBlockLoop(filled, obj, mem, [st EXCEPT !.locals = L3], n + 1)

\* The 16-byte counter plus one: the last byte is incremented, with carry
\* into the bytes before it
RECURSIVE IncrementCounterByOne(_)
IncrementCounterByOne(counter) ==
    IF counter = <<>> THEN <<>>
    ELSE LET n == Len(counter)
         IN  IF counter[n] < 255
             THEN [counter EXCEPT ![n] = @ + 1]
             ELSE Append(IncrementCounterByOne(SubSeq(counter, 1, n - 1)), 0)

\* The block one stride of the generic loop stores: the single-block call on
\* the input block (or the counter) and the xor block at the strides' offsets
GenericBlock(filled, build, obj, mem, st, flags) ==
    LET in == IF HasFlag(flags, BT_InBlockIsCounter) THEN st.counter
              ELSE SubSeq(mem.in, st.inOff + 1, st.inOff + 16)
        x == IF mem.xor = <<>> THEN <<>>
             ELSE SubSeq(mem.xor, st.xorOff + 1, st.xorOff + 16)
        xorIn == HasFlag(flags, BT_XorInput) /\ x # <<>>
    IN  EncProcessPortable(build, filled, obj,
                           IF xorIn THEN XorBytes(in, x) ELSE in,
                           IF xorIn THEN <<>> ELSE x)

\* BlockTransformation::AdvancedProcessBlocks, the bulk engine of a build or
\* processor without the assembly (its body is outside this file): a loop of
\* single-block calls, one block per stride, in input order. With XorInput
\* the xor block is added to the input block, otherwise to the output block;
\* with InBlockIsCounter the input is a counter whose last byte is
\* incremented (with carry) after every block; with
\* DontIncrementInOutPointers all block pointers stay where they are. The
\* log has the places of each stride: the input block, the output block and
\* the xor block, as the input's xor block with XorInput and as the
\* output's otherwise.
RECURSIVE GenericBlockLoop(_, _, _, _, _, _)
GenericBlockLoop(filled, build, obj, mem, st, flags) ==
    LET step == IF HasFlag(flags, BT_DontIncrementInOutPointers) THEN 0 ELSE BLOCKSIZE
        xorIn == HasFlag(flags, BT_XorInput) /\ mem.xor # <<>>
        xorOut == ~HasFlag(flags, BT_XorInput) /\ mem.xor # <<>>
        at == [buf |-> "xor", off |-> st.xorOff]
        none == [buf |-> "none", off |-> 0]
    IN  IF st.length < BLOCKSIZE THEN st
        ELSE GenericBlockLoop(filled, build, obj, mem,
                [ length |-> st.length - BLOCKSIZE,
                  counter |-> IncrementCounterByOne(st.counter),
                  inOff |-> IF HasFlag(flags, BT_InBlockIsCounter) THEN st.inOff
                            ELSE st.inOff + step,
                  xorOff |-> st.xorOff + step,
                  outOff |-> st.outOff + step,
                  out |-> Store16(st.out, st.outOff,
                                  GenericBlock(filled, build, obj, mem, st, flags)),
                  log |-> Append(st.log, [in |-> [buf |-> "in", off |-> st.inOff],
                                          inXor |-> IF xorIn THEN at ELSE none,
                                          outXor |-> IF xorOut THEN at ELSE none,
                                          out |-> st.outOff, n |-> Len(st.log)]) ],
                flags)

\* What a bulk call hands back: the value returned, the output buffer
\* afterwards and the blocks processed, in order
BulkResult(ret, st) == [ret |-> ret, out |-> st.out, log |-> st.log]

\* The same of the generic loop, which returns the length left over
GenericResult(st) == BulkResult(st.length, st)

\* Rijndael::Enc::AdvancedProcessBlocks(inBlocks, xorBlocks, outBlocks, length,
\* flags): mem holds the caller's buffers ("xor" = <<>> is the null pointer).
Enc_AdvancedProcessBlocks(build, filled, obj, mem, length, flags) ==
    IF length < BLOCKSIZE
    THEN [ret |-> length, out |-> mem.out, log |-> <<>>]
    ELSE IF build.sse2
    THEN BulkResult(length % 16,
                    AsmBlockLoop(filled, obj, mem,
                                 [locals |-> BulkLocals(obj, mem.xor, length, flags),
                                  out |-> mem.out, log |-> <<>>], 0))
    ELSE GenericResult(
             GenericBlockLoop(filled, build, obj, mem,
                              [length |-> length, counter |-> SubSeq(mem.in, 1, 16),
                               inOff |-> 0, xorOff |-> 0, outOff |-> 0,
                               out |-> mem.out, log |-> <<>>], flags))

\* Rijndael::Enc::ProcessAndXorBlock(inBlock, xorBlock, outBlock): the 16
\* bytes stored through outBlock
EncProcessAndXorBlock(build, filled, obj, inBlock, xorBlock) ==
    IF build.asm /\ build.sse2
    THEN Enc_AdvancedProcessBlocks(build, filled, obj,
             [in |-> inBlock, xor |-> xorBlock, out |-> Fill(0, 16)], 16, 0).out
    ELSE EncProcessPortable(build, filled, obj, inBlock, xorBlock)

----------------------------------------------------------------------------
(* The codec pipeline: caller -> BaseN_Encoder -> BaseN_Decoder -> sink *)

\* What m_outBuf.New() may leave in a fresh buffer
JunkBytes == {0, 255}

\* Input bytes of the runs: 'M' (01001101) and its complement
InputBytes == {77, 178}

\* The input byte of the runs with the longest block (7 bytes)
LongInputBytes == {178}

\* Bytes outside every alphabet: line feed, space, '='
IgnoredBytes == {10, 32, 61}

PadOptionsFor(name) ==
    IF name = "std" THEN PadOptions ELSE {q \in PadOptions : q.Pad = "absent"}

CodecConfigs ==
    UNION { { [Log2Base |-> b, EncodingLookupArray |-> name,
               DecodingLookupArray |-> <<"table", name>>,
               PaddingByte |-> p.PaddingByte, Pad |-> p.Pad,
               inputs |-> IF b = 7 THEN LongInputBytes ELSE InputBytes,
               maxLen |-> DecBlockBits(b, b) \div 8 + MaxExtra] :
                  b \in 1..7, p \in PadOptionsFor(name) } : name \in AlphabetNames }

\* Base64 as callers configure it, fed with the letters 'M', 'a', 'n'
Base64Configs ==
    { [Log2Base |-> 6, EncodingLookupArray |-> "std",
       DecodingLookupArray |-> <<"table", "std">>,
       PaddingByte |-> 61, Pad |-> "absent",
       inputs |-> {77, 97, 110},
       maxLen |-> 3 + MaxExtra] }

\* Sequences over S of length at most n
SeqsUpTo(S, n) == UNION { [1..k -> S] : k \in 0..n }

\* A filter that is not part of the run
NoFilter == [thrown |-> "absent"]

\* No Put2 call has returned blocked and is to be made again
NoPending == [op |-> "none"]

\* The Put2 call `op` puts `bytes` with `messageEnd`
PutCall(op, bytes, messageEnd) == [op |-> op, bytes |-> bytes, messageEnd |-> messageEnd]

\* What the caller has to do after the call `call` has returned as `r`: make
\* it again when it returned blocked
AfterCall(call, r) == IF r.blocked THEN call ELSE NoPending

\* The sinks and counters of a run before the first put
StreamStart ==
    /\ pending = NoPending
    /\ msg = <<>>
    /\ encOut = <<>>
    /\ decOut = <<>>
    /\ grpOut = <<>>
    /\ ended = FALSE
    /\ total = 0
    /\ nIgnored = 0
    /\ fed = 0

\* No filter is part of the run
FiltersIdle ==
    /\ cfg = [Log2Base |-> 0]
    /\ enc = NoFilter
    /\ dec = NoFilter
    /\ grp = NoFilter
    /\ StreamStart

\* The blocks of the single-block calls before the first call
NoBlocks ==
    [inBlock |-> <<>>, xorBlock |-> <<>>, outBlock |-> <<>>, outKey |-> <<>>,
     back |-> <<>>, backKey |-> <<>>]

\* No SetKey call has been made
NoCall ==
    [op |-> "none", forward |-> TRUE, keylen |-> 0, thrown |-> "none",
     expansion |-> [stores |-> {}, exit |-> "none", rk |-> 0]]

\* No bulk call has been made (or the last one was taken note of)
NoBulkCall ==
    [called |-> FALSE, length |-> 0, flags |-> 0, xorBlocks |-> <<>>,
     ret |-> 0, out |-> <<>>, log |-> <<>>]

\* The threads of the runs with concurrent SetKey calls
NumThreads == 2

Threads == 1..NumThreads

\* The 256 entries of a table are stored in TableRuns runs of consecutive
\* entries
TableRuns == 2

\* SetKey calls one thread makes
MaxThreadCalls == 2

\* A thread outside a SetKey call
IdleThread == [pc |-> "idle", forward |-> TRUE, i |-> 0, flagStored |-> FALSE, calls |-> 0]

\* Static storage: nothing has been stored to Te or Td, no thread is in a
\* call
ThreadsStart ==
    /\ tables = [Te |-> [c \in 1..TableRuns |-> 0], Td |-> [c \in 1..TableRuns |-> 0]]
    /\ threads = [t \in Threads |-> IdleThread]

\* No single-block call is being followed
NoEngineCall ==
    [pc |-> "idle", layout |-> "Te32", asm |-> FALSE, loadsKept |-> TRUE,
     hasXor |-> FALSE, cacheLineSize |-> 0, base |-> 0, i |-> 0,
     touched |-> {}, lookup |-> [round |-> "none", first |-> 0, size |-> 0]]

\* The cipher objects before any call, in the build b
RijndaelStart(b) ==
    /\ ThreadsStart
    /\ preload = NoEngineCall
    /\ target = b
    /\ s_TeFilled = FALSE
    /\ s_TdFilled = FALSE
    /\ encObj = UnkeyedObject
    /\ decObj = UnkeyedObject
    /\ userKeys = [enc |-> <<>>, dec |-> <<>>]
    /\ lastCall = NoCall
    /\ io = NoBlocks
    /\ bulk = NoBulkCall

\* The cipher is not part of the run
RijndaelIdle == RijndaelStart([unaligned |-> FALSE, asm |-> FALSE, sse2 |-> FALSE])

InitCodec(configs) ==
    /\ cfg \in configs
    /\ \E junk \in JunkBytes :
          /\ enc = BaseN_Encoder_IsolatedInitialize(cfg, junk)
          /\ dec = BaseN_Decoder_IsolatedInitialize(cfg, junk)
    /\ grp = NoFilter
    /\ StreamStart
    /\ RijndaelIdle

\* The caller puts `bytes` into the encoder, with or without messageEnd, or
\* makes the call again that returned blocked; the encoder's Output calls are
\* Put2 calls of the attached decoder, whose Output calls reach a sink that
\* takes `credit` of them.
EncPut(bytes, messageEnd, credit) ==
    LET first == pending = NoPending
        call == PutCall("EncPut", bytes, messageEnd)
    IN  /\ ~ended
        /\ IF first THEN total + Len(bytes) <= cfg.maxLen ELSE pending = call
        /\ \E r \in {BaseN_Encoder_Put2(enc, bytes, messageEnd, Attached(dec, Sink(credit)))} :
               /\ enc' = r.obj
               /\ dec' = r.down.obj
               /\ encOut' = encOut \o SinkData(r.outs)
               /\ decOut' = decOut \o SinkData(r.below)
               /\ pending' = AfterCall(call, r)
               /\ ended' = (messageEnd # 0 /\ ~r.blocked)
        /\ msg' = IF first THEN msg \o bytes ELSE msg
        /\ total' = IF first THEN total + Len(bytes) ELSE total
        /\ UNCHANGED <<cfg, grp, grpOut, nIgnored, fed>>
        /\ UNCHANGED <<aesVars, threadVars, preload>>

\* The caller starts the next message on the same objects; the sinks are
\* emptied.
NewMessage ==
    /\ ended
    /\ msg' = <<>>
    /\ encOut' = <<>>
    /\ decOut' = <<>>
    /\ grpOut' = <<>>
    /\ ended' = FALSE
    /\ nIgnored' = 0
    /\ fed' = 0
    /\ UNCHANGED <<cfg, enc, dec, grp, total, pending>>
    /\ UNCHANGED <<aesVars, threadVars, preload>>

Init == InitCodec(CodecConfigs \cup Base64Configs)

Next ==
    \/ \E bytes \in SeqsUpTo(cfg.inputs, MaxPut), messageEnd \in {0, -1},
          credit \in Credits :
          EncPut(bytes, messageEnd, credit)
    \/ NewMessage

Spec == Init /\ [][Next]_vars

----------------------------------------------------------------------------
(* An encoder and a decoder used apart: the caller encodes a message, then
   puts the encoding into the decoder in chunks, with characters the
   decoder ignores in between *)

\* Configurations of the runs with ignored characters
IgnoreConfigs ==
    {c \in CodecConfigs : c.EncodingLookupArray = "std" /\ c.Pad = "absent"}
        \cup Base64Configs

InitIgnore == InitCodec(IgnoreConfigs)

\* The caller puts the whole message into the encoder, with messageEnd, or
\* makes that call again; the encoder's sink keeps the characters
Encode(bytes, credit) ==
    LET first == pending = NoPending
        call == PutCall("Encode", bytes, -1)
    IN  /\ ~ended
        /\ IF first
           THEN encOut = <<>> /\ bytes # <<>> /\ total + Len(bytes) <= cfg.maxLen
           ELSE pending = call
        /\ \E r \in {BaseN_Encoder_Put2(enc, bytes, -1, Sink(credit))} :
               /\ enc' = r.obj
               /\ encOut' = encOut \o SinkData(r.outs)
               /\ pending' = AfterCall(call, r)
        /\ msg' = bytes
        /\ total' = IF first THEN total + Len(bytes) ELSE total
        /\ UNCHANGED <<cfg, dec, grp, decOut, grpOut, ended, nIgnored, fed>>
        /\ UNCHANGED <<aesVars, threadVars, preload>>

\* The caller puts the next n characters of the encoding into the decoder,
\* or makes that call again; messageEnd goes with the last of them
DecPutEncoded(n, messageEnd, credit) ==
    LET first == pending = NoPending
        chars == IF first THEN SubSeq(encOut, fed + 1, fed + n) ELSE pending.bytes
        call == PutCall("DecPutEncoded", chars, messageEnd)
    IN  /\ ~ended
        /\ encOut # <<>>
        /\ IF first
           THEN fed + n <= Len(encOut) /\ (messageEnd # 0 => fed + n = Len(encOut))
           ELSE pending = call /\ n = Len(chars)
        /\ \E rd \in {BaseN_Decoder_Put2(dec, chars, messageEnd, Sink(credit))} :
               /\ dec' = rd.obj
               /\ decOut' = decOut \o SinkData(rd.outs)
               /\ pending' = AfterCall(call, rd)
               /\ ended' = (messageEnd # 0 /\ ~rd.blocked)
        /\ fed' = IF first THEN fed + n ELSE fed
        /\ UNCHANGED <<cfg, enc, grp, msg, encOut, grpOut, total, nIgnored>>
        /\ UNCHANGED <<aesVars, threadVars, preload>>

\* The caller puts characters the decoder's lookup maps to the ignore
\* sentinel into the decoder, at any point of the encoding
DecPutIgnored(chars, credit) ==
    /\ ~ended
    /\ pending = NoPending
    /\ chars # <<>>
    /\ nIgnored + Len(chars) <= MaxIgnored
    /\ \A i \in 1..Len(chars) :
          DecodingLookupArray(dec.m_lookup, dec.m_bitsPerChar)[chars[i]] = -1
    /\ \E rd \in {BaseN_Decoder_Put2(dec, chars, 0, Sink(credit))} :
           /\ dec' = rd.obj
           /\ decOut' = decOut \o SinkData(rd.outs)
           /\ pending' = AfterCall(PutCall("DecPutIgnored", chars, 0), rd)
    /\ nIgnored' = nIgnored + Len(chars)
    /\ UNCHANGED <<cfg, enc, grp, msg, encOut, grpOut, ended, total, fed>>
    /\ UNCHANGED <<aesVars, threadVars, preload>>

NextIgnore ==
    \/ \E bytes \in SeqsUpTo(cfg.inputs, cfg.maxLen), credit \in Credits :
          Encode(bytes, credit)
    \/ \E n \in 0..MaxPut, messageEnd \in {0, -1}, credit \in Credits :
          DecPutEncoded(n, messageEnd, credit)
    \/ \E chars \in SeqsUpTo(IgnoredBytes, MaxIgnored), credit \in Credits :
          DecPutIgnored(chars, credit)
    \/ NewMessage

SpecIgnore == InitIgnore /\ [][NextIgnore]_vars

----------------------------------------------------------------------------
(* A Base32 decoder fed with a text in chunks *)

\* The longest chunk of one Put2
MaxChunk == 6

\* "jbswy3dpeblw64tmmq======"
Base32Lower ==
    <<106, 98, 115, 119, 121, 51, 100, 112, 101, 98, 108, 119, 54, 52,
      116, 109, 109, 113, 61, 61, 61, 61, 61, 61>>

\* "JBSWY3DPEBLW64TMMQ======"
Base32Upper ==
    <<74, 66, 83, 87, 89, 51, 68, 80, 69, 66, 76, 87, 54, 52, 84, 77, 77,
      81, 61, 61, 61, 61, 61, 61>>

\* "JbSwY3dPeBlW64TmMq======"
Base32Mixed ==
    <<74, 98, 83, 119, 89, 51, 100, 80, 101, 66, 108, 87, 54, 52, 84, 109,
      77, 113, 61, 61, 61, 61, 61, 61>>

\* "JBSWY3DPEB3W64TMMQ======"
Base32Other ==
    <<74, 66, 83, 87, 89, 51, 68, 80, 69, 66, 51, 87, 54, 52, 84, 77, 77,
      81, 61, 61, 61, 61, 61, 61>>

Base32Texts == {Base32Lower, Base32Upper, Base32Mixed, Base32Other}

InitBase32 ==
    /\ \E text \in Base32Texts, ci \in BOOLEAN :
          cfg = [Log2Base |-> 5, DecodingLookupArray |-> <<"base32", ci>>,
                 text |-> text]
    /\ enc = NoFilter
    /\ \E junk \in JunkBytes : dec = BaseN_Decoder_IsolatedInitialize(cfg, junk)
    /\ grp = NoFilter
    /\ StreamStart
    /\ RijndaelIdle

\* The caller puts the next n characters of the text into the decoder, or
\* makes the call again that returned blocked
Base32Put(n, messageEnd, credit) ==
    LET first == pending = NoPending
        chars == IF first THEN SubSeq(cfg.text, total + 1, total + n) ELSE pending.bytes
        call == PutCall("Base32Put", chars, messageEnd)
    IN  /\ ~ended
        /\ IF first THEN total + n <= Len(cfg.text) ELSE pending = call /\ n = Len(chars)
        /\ \E rd \in {BaseN_Decoder_Put2(dec, chars, messageEnd, Sink(credit))} :
               /\ dec' = rd.obj
               /\ decOut' = decOut \o SinkData(rd.outs)
               /\ pending' = AfterCall(call, rd)
               /\ ended' = (messageEnd # 0 /\ ~rd.blocked)
        /\ msg' = IF first THEN msg \o chars ELSE msg
        /\ total' = IF first THEN total + n ELSE total
        /\ UNCHANGED <<cfg, enc, grp, encOut, grpOut, nIgnored, fed>>
        /\ UNCHANGED <<aesVars, threadVars, preload>>

NextBase32 ==
    \E n \in 0..MaxChunk, messageEnd \in {0, -1}, credit \in Credits :
        Base32Put(n, messageEnd, credit)

SpecBase32 == InitBase32 /\ [][NextBase32]_vars

----------------------------------------------------------------------------
(* A Grouper fed with a text in chunks *)

\* The largest group size of the runs
MaxGroup == 4

\* The longest chunk of one Put2 of the grouper
MaxGroupPut == 3

\* "TWFuTWFu"
GrouperText == <<84, 87, 70, 117, 84, 87, 70, 117>>

\* The name-value pairs of the runs: a parameter not supplied is not a field
GrouperParameters ==
    LET sizes == {[GroupSize |-> g] : g \in 0..MaxGroup} \cup {<<>>}
        seps == {[Separator |-> <<32>>], [Separator |-> <<44, 32>>], <<>>}
        terms == {[Terminator |-> <<10>>], <<>>}
    IN  {a @@ b @@ c : a \in sizes, b \in seps, c \in terms}

InitGrouper ==
    /\ cfg \in GrouperParameters
    /\ enc = NoFilter
    /\ dec = NoFilter
    /\ grp = Grouper_IsolatedInitialize(cfg)
    /\ StreamStart
    /\ RijndaelIdle

\* The caller puts the next n bytes of the text into the grouper, or makes
\* the call again that returned blocked
GrouperPut(n, messageEnd, credit) ==
    LET first == pending = NoPending
        bytes == IF first THEN SubSeq(GrouperText, Len(msg) + 1, Len(msg) + n)
                 ELSE pending.bytes
        call == PutCall("GrouperPut", bytes, messageEnd)
    IN  /\ grp.thrown = "none"
        /\ ~ended
        /\ IF first THEN Len(msg) + n <= Len(GrouperText)
           ELSE pending = call /\ n = Len(bytes)
        /\ \E r \in {Grouper_Put2(grp, bytes, messageEnd, Sink(credit))} :
               /\ grp' = r.obj
               /\ grpOut' = grpOut \o SinkData(r.outs)
               /\ pending' = AfterCall(call, r)
               /\ ended' = (messageEnd # 0 /\ ~r.blocked)
        /\ msg' = IF first THEN msg \o bytes ELSE msg
        /\ UNCHANGED <<cfg, enc, dec, encOut, decOut, total, nIgnored, fed>>
        /\ UNCHANGED <<aesVars, threadVars, preload>>

NextGrouper ==
    \/ \E n \in 0..MaxGroupPut, messageEnd \in {0, -1}, credit \in Credits :
          GrouperPut(n, messageEnd, credit)
    \/ NewMessage

SpecGrouper == InitGrouper /\ [][NextGrouper]_vars

----------------------------------------------------------------------------
(* Rijndael: an encryption object and a decryption object, keyed and used
   for single blocks *)

\* 2b7e151628aed2a6abf7158809cf4f3c
Key128 ==
    <<43, 126, 21, 22, 40, 174, 210, 166, 171, 247, 21, 136, 9, 207, 79,
      60>>

\* 8e73b0f7da0e6452c810f32b809079e562f8ead2522c6b7b
Key192 ==
    <<142, 115, 176, 247, 218, 14, 100, 82, 200, 16, 243, 43, 128, 144,
      121, 229, 98, 248, 234, 210, 82, 44, 107, 123>>

\* 603deb1015ca71be2b73aef0857d77811f352c073b6108d72d9810a30914dff4
Key256 ==
    <<96, 61, 235, 16, 21, 202, 113, 190, 43, 115, 174, 240, 133, 125,
      119, 129, 31, 53, 44, 7, 59, 97, 8, 215, 45, 152, 16, 163, 9, 20,
      223, 244>>

ValidKeys == {Key128, Key192, Key256}

\* Key lengths the key schedule does not accept
InvalidKeyLengths == {0, 8, 20, 33}

\* User keys of the lengths the key schedule does not accept
InvalidKeys == {SubSeq(Key256 \o Key128, 1, n) : n \in InvalidKeyLengths}

\* 6bc1bee22e409f96e93d7e1173931722
Block1722 ==
    <<107, 193, 190, 226, 46, 64, 159, 150, 233, 61, 126, 17, 115, 147,
      23, 34>>

\* 6bc1bee22e409f96e93d7e117393172a
Block172a ==
    <<107, 193, 190, 226, 46, 64, 159, 150, 233, 61, 126, 17, 115, 147,
      23, 42>>

\* 00000000000000000000000000000000
BlockZero == <<0, 0, 0, 0, 0, 0, 0, 0, 0, 0, 0, 0, 0, 0, 0, 0>>

\* 00112233445566778899aabbccddeeff
BlockFips ==
    <<0, 17, 34, 51, 68, 85, 102, 119, 136, 153, 170, 187, 204, 221, 238,
      255>>

InputBlocks == {Block1722, Block172a, BlockZero, BlockFips}

\* The xor blocks of the single-block calls; <<>> is the null pointer
XorBlocks == {<<>>, Block1722}

\* How the library is built and what the processor has: the unaligned-access
\* table layout, the assembly, SSE2
SingleBlockTargets ==
    { [unaligned |-> TRUE, asm |-> TRUE, sse2 |-> TRUE],
      [unaligned |-> TRUE, asm |-> FALSE, sse2 |-> FALSE],
      [unaligned |-> FALSE, asm |-> FALSE, sse2 |-> FALSE] }

InitRijndael ==
    /\ FiltersIdle
    /\ \E b \in SingleBlockTargets : RijndaelStart(b)

\* SetKey(userKey, keylen) on the encryption object (forward) or on the
\* decryption object; the caller keys the objects between the runs of blocks.
\* The call is remembered with the places of m_key its expansion loop
\* stored to.
SetKey(forward, userKey, junk) ==
    /\ io = NoBlocks
    /\ ~bulk.called
    /\ \E r \in {UncheckedSetKey(IF forward THEN encObj ELSE decObj, userKey,
                                   Len(userKey), forward, s_TeFilled, s_TdFilled, junk)} :
           /\ encObj' = IF forward THEN r.obj ELSE encObj
           /\ decObj' = IF forward THEN decObj ELSE r.obj
           /\ s_TeFilled' = r.s_TeFilled
           /\ s_TdFilled' = r.s_TdFilled
           /\ lastCall' = [op |-> "SetKey", forward |-> forward,
                           keylen |-> Len(userKey), thrown |-> r.thrown,
                           expansion |->
                               IF r.thrown = "none"
                               THEN KeyExpansionStores(Len(r.obj.m_key), 0,
                                                       Len(userKey), {})
                               ELSE NoCall.expansion]
           /\ userKeys' = IF r.thrown # "none" THEN userKeys
                          ELSE IF forward THEN [userKeys EXCEPT !.enc = userKey]
                          ELSE [userKeys EXCEPT !.dec = userKey]
    /\ UNCHANGED <<target, io, bulk>>
    /\ UNCHANGED <<codecVars, threadVars, preload>>

\* Enc::ProcessAndXorBlock(inBlock, xorBlock, outBlock) on the keyed object
Encrypt(inBlock, xorBlock) ==
    /\ encObj.m_rounds # 0
    /\ io = NoBlocks
    /\ io' = [io EXCEPT !.inBlock = inBlock, !.xorBlock = xorBlock,
                        !.outBlock = EncProcessAndXorBlock(target, s_TeFilled, encObj,
                                                           inBlock, xorBlock),
                        !.outKey = userKeys.enc]
    /\ UNCHANGED <<target, s_TeFilled, s_TdFilled, encObj, decObj, userKeys, lastCall, bulk>>
    /\ UNCHANGED <<codecVars, threadVars, preload>>

\* Dec::ProcessAndXorBlock(outBlock, NULL, back) on the keyed object, on the
\* block the encryption produced
Decrypt ==
    /\ decObj.m_rounds # 0
    /\ io.outBlock # <<>>
    /\ io.back = <<>>
    /\ io' = [io EXCEPT !.back = DecProcessAndXorBlock(s_TdFilled, decObj, io.outBlock, <<>>),
                        !.backKey = userKeys.dec]
    /\ UNCHANGED <<target, s_TeFilled, s_TdFilled, encObj, decObj, userKeys, lastCall, bulk>>
    /\ UNCHANGED <<codecVars, threadVars, preload>>

\* The caller is done with the blocks
Clear ==
    /\ io # NoBlocks
    /\ io' = NoBlocks
    /\ UNCHANGED <<target, s_TeFilled, s_TdFilled, encObj, decObj, userKeys, lastCall, bulk>>
    /\ UNCHANGED <<codecVars, threadVars, preload>>

NextRijndael ==
    \/ \E forward \in BOOLEAN, userKey \in ValidKeys \cup InvalidKeys, junk \in JunkBytes :
          SetKey(forward, userKey, junk)
    \/ \E inBlock \in InputBlocks, xorBlock \in XorBlocks : Encrypt(inBlock, xorBlock)
    \/ Decrypt
    \/ Clear

SpecRijndael == InitRijndael /\ [][NextRijndael]_vars

----------------------------------------------------------------------------
(* Rijndael::Enc: bulk calls on a keyed object *)

\* The most whole blocks of one bulk call
MaxBlocks == 2

\* The bytes of a call beyond its whole blocks
BulkRemainders == {0, 1, 15}

BulkLengths == {16 * q + r : q \in 0..MaxBlocks, r \in BulkRemainders}

BulkKeys == {Key128, Key256}

\* The targets of the bulk calls: the assembly is built, the processor has
\* SSE2 or not
BulkTargets ==
    { [unaligned |-> TRUE, asm |-> TRUE, sse2 |-> TRUE],
      [unaligned |-> TRUE, asm |-> TRUE, sse2 |-> FALSE] }

\* n bytes of a caller's buffer: byte i is first + 7 * i
BufferBytes(first, n) == Array([i \in 1..n |-> (first + 7 * i) % 256], n)

\* What the caller's buffers hold before a bulk call of `length` bytes: the
\* input blocks, the xor blocks (<<>>: the null pointer), the output buffer
BulkMemory(length, hasXor) ==
    [ in |-> BufferBytes(100, length),
      xor |-> IF hasXor THEN BufferBytes(23, length) ELSE <<>>,
      out |-> Fill(238, length) ]

InitBulk ==
    /\ FiltersIdle
    /\ \E b \in BulkTargets : RijndaelStart(b)

\* AdvancedProcessBlocks(inBlocks, xorBlocks, outBlocks, length, flags) on the
\* keyed encryption object
BulkCall(length, flags, hasXor) ==
    /\ encObj.m_rounds # 0
    /\ ~bulk.called
    /\ \E mem \in {BulkMemory(length, hasXor)} :
       \E r \in {Enc_AdvancedProcessBlocks(target, s_TeFilled, encObj, mem, length, flags)} :
          bulk' = [called |-> TRUE, length |-> length, flags |-> flags,
                   xorBlocks |-> mem.xor, ret |-> r.ret, out |-> r.out, log |-> r.log]
    /\ UNCHANGED <<target, s_TeFilled, s_TdFilled, encObj, decObj, userKeys, lastCall, io>>
    /\ UNCHANGED <<codecVars, threadVars, preload>>

\* The caller has taken note of the call's results
BulkReturn ==
    /\ bulk.called
    /\ bulk' = NoBulkCall
    /\ UNCHANGED <<target, s_TeFilled, s_TdFilled, encObj, decObj, userKeys, lastCall, io>>
    /\ UNCHANGED <<codecVars, threadVars, preload>>

NextBulk ==
    \/ \E userKey \in BulkKeys, junk \in JunkBytes : SetKey(TRUE, userKey, junk)
    \/ \E length \in BulkLengths, flags \in 0..7, hasXor \in BOOLEAN :
          BulkCall(length, flags, hasXor)
    \/ BulkReturn

SpecBulk == InitBulk /\ [][NextBulk]_vars

----------------------------------------------------------------------------
(* Rijndael::Base: threads keying distinct objects at the same time *)

\* The static flag of a table, as a thread reads it
TableFlag(forward) == IF forward THEN s_TeFilled ELSE s_TdFilled

\* The table a call in the direction `forward` fills
TableOf(forward) == IF forward THEN "Te" ELSE "Td"

\* Where a call goes on after the table is there: a forward call returns, a
\* call on a decryption object goes on to the inverse MixColumn loop
AfterFill(forward) == IF forward THEN "done" ELSE "mix"

\* A thread enters UncheckedSetKey on an object of its own, with a valid
\* key. The key expansion works on the object alone, up to the test of the
\* flag.
ThreadCall(t, forward) ==
    /\ threads[t].pc = "idle"
    /\ threads[t].calls < MaxThreadCalls
    /\ threads' = [threads EXCEPT ![t] = [pc |-> "test", forward |-> forward, i |-> 0,
                                          flagStored |-> FALSE, calls |-> @.calls + 1]]
    /\ UNCHANGED <<tables, codecVars, aesVars, preload>>

\* if (!s_TeFilled) FillEncTable();  resp.  if (!s_TdFilled) FillDecTable();
\* the thread reads the flag (a plain bool)
ThreadTest(t) ==
    /\ threads[t].pc = "test"
    /\ threads' = [threads EXCEPT ![t].pc = IF TableFlag(threads[t].forward)
                                            THEN AfterFill(threads[t].forward)
                                            ELSE "fill"]
    /\ UNCHANGED <<tables, codecVars, aesVars, preload>>

\* The pc of a thread in FillEncTable or FillDecTable after one more store:
\* the function returns when the runs and the flag are stored
FillPc(forward, i, flagStored) ==
    IF i = TableRuns /\ flagStored THEN AfterFill(forward) ELSE "fill"

\* for (int i=0; i<256; i++) { ... Te[i] = ...; }: the next run of entries is
\* stored
FillStore(t) ==
    /\ threads[t].pc = "fill"
    /\ threads[t].i < TableRuns
    /\ tables' = [tables EXCEPT ![TableOf(threads[t].forward)][threads[t].i + 1] = @ + 1]
    /\ threads' = [threads EXCEPT
                      ![t].i = @ + 1,
                      ![t].pc = FillPc(threads[t].forward, threads[t].i + 1,
                                       threads[t].flagStored)]
    /\ UNCHANGED <<codecVars, aesVars, preload>>

\* s_TeFilled = true;  resp.  s_TdFilled = true;  The flag and the entries
\* are plain objects stored without any ordering between threads: the store
\* to the flag is the last one in the program's order, but another thread
\* may see it before stores to the entries (inOrder = FALSE).
FlagStore(t, inOrder) ==
    /\ threads[t].pc = "fill"
    /\ ~threads[t].flagStored
    /\ inOrder => threads[t].i = TableRuns
    /\ s_TeFilled' = IF threads[t].forward THEN TRUE ELSE s_TeFilled
    /\ s_TdFilled' = IF threads[t].forward THEN s_TdFilled ELSE TRUE
    /\ threads' = [threads EXCEPT
                      ![t].flagStored = TRUE,
                      ![t].pc = FillPc(threads[t].forward, threads[t].i, TRUE)]
    /\ UNCHANGED <<target, encObj, decObj, userKeys, lastCall, io, bulk>>
    /\ UNCHANGED <<tables, codecVars, preload>>

\* The inverse MixColumn loop of a call on a decryption object: the round
\* keys are replaced by words read from Td
ThreadMix(t) ==
    /\ threads[t].pc = "mix"
    /\ threads' = [threads EXCEPT ![t].pc = "done"]
    /\ UNCHANGED <<tables, codecVars, aesVars, preload>>

\* UncheckedSetKey returns
ThreadReturn(t) ==
    /\ threads[t].pc = "done"
    /\ threads' = [threads EXCEPT ![t].pc = "idle"]
    /\ UNCHANGED <<tables, codecVars, aesVars, preload>>

InitThreads ==
    /\ FiltersIdle
    /\ RijndaelIdle

NextThreads ==
    \/ \E t \in Threads, forward \in BOOLEAN : ThreadCall(t, forward)
    \/ \E t \in Threads : ThreadTest(t)
    \/ \E t \in Threads : FillStore(t)
    \/ \E t \in Threads, inOrder \in BOOLEAN : FlagStore(t, inOrder)
    \/ \E t \in Threads : ThreadMix(t)
    \/ \E t \in Threads : ThreadReturn(t)

SpecThreads == InitThreads /\ [][NextThreads]_vars

----------------------------------------------------------------------------
(* Rijndael: the cache lines a single-block call reads in its table *)

\* The table of a call and its layout: "Te64" is word64 Te[256] (built with
\* CRYPTOPP_ALLOW_UNALIGNED_DATA_ACCESS; Te[256+2], aligned to 16 bytes, where
\* the assembly is built), "Te32" is word32 Te[256*4], "Td32" is word32
\* Td[256*4]

\* The builds and processors of the calls: those of the single-block runs
\* and the build with the assembly on a processor without SSE2
EngineTargets == SingleBlockTargets \cup BulkTargets

\* The table a call of Enc (forward) or Dec reads in the build b
TableOfCall(b, forward) ==
    IF ~forward THEN "Td32" ELSE IF b.unaligned THEN "Te64" ELSE "Te32"

\* The alignment of the table: CRYPTOPP_ALIGN_DATA(16) for the Te of the
\* assembly, that of its entries otherwise
TableAlignment(b, layout) ==
    IF layout = "Te64" /\ b.asm THEN 16 ELSE IF layout = "Te64" THEN 8 ELSE 4

\* if (HasSSE2()) of Enc::ProcessAndXorBlock, compiled where the assembly is
\* built: the call goes through Enc::AdvancedProcessBlocks
AsmRoute(b, forward) == forward /\ b.asm /\ b.sse2

\* (byte *)(Te+256): the 16 zero bytes behind the 256 entries
ZerosOffset == 256 * 8

\* sizeof of an entry of the table
EntrySize(layout) == IF layout = "Te64" THEN 8 ELSE 4

\* What GetCacheLineSize() reports (its body is outside this file)
CacheLineSizes == {32, 64, 128}

\* Addresses of the table's first byte, modulo 128
TableBases == {0, 4, 8, 16, 28, 56, 112}

\* The values of byte(t) the lookups are followed for
LookupBytes == {0, 7, 8, 127, 128, 248, 255}

\* The cache lines that hold the `size` bytes at offset `first` of a table
\* at address `base`, the lines numbered from address 0
LinesOf(base, cacheLineSize, first, size) ==
    {(base + b) \div cacheLineSize : b \in first..(first + size - 1)}

\* for (i=0; i<2048; i+=cacheLineSize)  resp.  for (i=0; i<1024; ...): the
\* bound of the preload loop
PreloadBound(layout) == IF layout = "Te64" THEN 2048 ELSE 1024

\* TL(i, x) of the first round, little-endian: the offset of the word32 read
TLFirstOffset(layout, i, x) ==
    IF layout = "Te64" THEN x * 8 + ((6 - i) % 4) + 1 ELSE x * 4

\* TL(i, x) of the full rounds, and Td[i*256 + byte(t)] of the decryption
TLFullOffset(layout, i, x) ==
    IF layout = "Te64" THEN x * 8 + ((i + 3) % 4) + 1 ELSE (i * 256 + x) * 4

\* ((byte *)(Te+byte(t)))[1] of the last round of the encryption
TeLastOffset(layout, x) == x * EntrySize(layout) + 1

\* DWORD PTR [si+8*bp+MAP0TO4(c)] of the macros XOR, MXOR, MOV and MMOV of
\* the assembly: the offset of the doubleword read
MAP0TO4(c) == ((c + 3) % 4) + 1

AsmOffset(c, x) == 8 * x + MAP0TO4(c)

\* A single-block call of Enc (forward) or Dec begins in the build of the
\* run, with or without a xor block: the table is at an address that suits
\* its alignment and GetCacheLineSize() has reported cacheLineSize. In the
\* C++ body s0..s3, t0..t3 are loaded from the block and the key; with the
\* assembly and SSE2, Enc::ProcessAndXorBlock calls
\* Enc::AdvancedProcessBlocks(inBlock, xorBlock, outBlock, 16, 0), which
\* fills its Locals and calls the assembly, and that copies the subkeys.
\* The loads of the C++ body's preload are made through a plain pointer
\* into u, which is 0 and stays 0 under &=, so their result is never used:
\* whether the compiled body performs them (loadsKept) is up to the
\* compiler. The loads of the assembly are instructions and always made.
EngineCall(forward, hasXor, loadsKept, cacheLineSize, base) ==
    LET b == target
        layout == TableOfCall(b, forward)
    IN  /\ preload.pc = "idle"
        /\ base % TableAlignment(b, layout) = 0
        /\ AsmRoute(b, forward) => loadsKept
        /\ preload' = [NoEngineCall EXCEPT
                          !.pc = IF AsmRoute(b, forward) THEN "asmloop" ELSE "loop",
                          !.layout = layout,
                          !.asm = AsmRoute(b, forward),
                          !.loadsKept = loadsKept,
                          !.hasXor = hasXor,
                          !.cacheLineSize = cacheLineSize,
                          !.base = base]
        /\ UNCHANGED <<codecVars, aesVars, threadVars>>

\* One pass of the loop "load table into cache" of the assembly: four times
\* mov ebp, [si+ax]; add ax, di; then cmp ax, 2048; jl
AsmPreloadPass ==
    /\ preload.pc = "asmloop"
    /\ preload' = [preload EXCEPT
                      !.touched = @ \cup UNION { LinesOf(preload.base, preload.cacheLineSize,
                                                        preload.i + k * preload.cacheLineSize, 4) :
                                                 k \in 0..3 },
                      !.i = @ + 4 * preload.cacheLineSize,
                      !.pc = IF preload.i + 4 * preload.cacheLineSize < 2048
                             THEN "asmloop" ELSE "asmxor"]
    /\ UNCHANGED <<codecVars, aesVars, threadVars>>

\* movdqu xmm5, [L_INXORBLOCKS] of the per-block setup: flags is 0, so
\* locals.inXorBlocks is zeros = (byte *)(Te+256)
AsmInXor ==
    /\ preload.pc = "asmxor"
    /\ preload' = [preload EXCEPT
                      !.touched = @ \cup LinesOf(preload.base, preload.cacheLineSize,
                                                 ZerosOffset, 16),
                      !.pc = "first"]
    /\ UNCHANGED <<codecVars, aesVars, threadVars>>

\* u &= *(const word32 *)(((const byte *)Te)+i);  i += cacheLineSize, in a
\* body compiled with the loads
PreloadRead ==
    /\ preload.pc = "loop"
    /\ preload.loadsKept
    /\ preload.i < PreloadBound(preload.layout)
    /\ preload' = [preload EXCEPT
                      !.touched = @ \cup LinesOf(preload.base, preload.cacheLineSize,
                                                 preload.i, 4),
                      !.i = @ + preload.cacheLineSize]
    /\ UNCHANGED <<codecVars, aesVars, threadVars>>

\* u &= Te[255];  resp.  u &= Td[255];  after the loop, in a body compiled
\* with the loads
PreloadLast ==
    /\ preload.pc = "loop"
    /\ preload.loadsKept
    /\ preload.i >= PreloadBound(preload.layout)
    /\ preload' = [preload EXCEPT
                      !.touched = @ \cup LinesOf(preload.base, preload.cacheLineSize,
                                                 255 * EntrySize(preload.layout),
                                                 EntrySize(preload.layout)),
                      !.pc = "first"]
    /\ UNCHANGED <<codecVars, aesVars, threadVars>>

\* The same lines of the source in a body compiled without the loads (u is
\* known to be 0, the loop and the read of entry 255 have no effect and are
\* removed): the call goes on to the first round and has read nothing of
\* the table
PreloadElided ==
    /\ preload.pc = "loop"
    /\ ~preload.loadsKept
    /\ preload' = [preload EXCEPT !.pc = "first"]
    /\ UNCHANGED <<codecVars, aesVars, threadVars>>

\* A lookup of the first round: TL(i, byte(t)), resp. Td[byte(t)]; in the
\* assembly MXOR or XOR with (byte, i)
FirstRoundLookup(i, x) ==
    /\ preload.pc = "first"
    /\ preload' = [preload EXCEPT
                      !.lookup = [round |-> "first",
                                  first |-> IF preload.asm THEN AsmOffset(i, x)
                                            ELSE TLFirstOffset(preload.layout, i, x),
                                  size |-> 4],
                      !.pc = "rounds"]
    /\ UNCHANGED <<codecVars, aesVars, threadVars>>

\* A lookup of the full rounds: TL(i, byte(t)), resp. Td[i*256+byte(t)]; in
\* the assembly a lookup of ROUND()
FullRoundLookup(i, x) ==
    /\ preload.pc = "rounds"
    /\ preload' = [preload EXCEPT
                      !.lookup = [round |-> "full",
                                  first |-> IF preload.asm THEN AsmOffset(i, x)
                                            ELSE TLFullOffset(preload.layout, i, x),
                                  size |-> 4],
                      !.pc = "last"]
    /\ UNCHANGED <<codecVars, aesVars, threadVars>>

\* A lookup of the last round of the encryption: ((byte *)(Te+byte(t)))[1]
EncLastLookup(x) ==
    /\ preload.pc = "last"
    /\ preload.layout # "Td32"
    /\ ~preload.asm
    /\ preload' = [preload EXCEPT
                      !.lookup = [round |-> "last",
                                  first |-> TeLastOffset(preload.layout, x),
                                  size |-> 1],
                      !.pc = "done"]
    /\ UNCHANGED <<codecVars, aesVars, threadVars>>

\* A lookup of LAST(a, b, c) of the assembly: movzx edi, BYTE PTR
\* [si+bp*8+1], or xor edi, DWORD PTR [si+bp*8+0]
AsmLastLookup(x, doubleword) ==
    /\ preload.pc = "last"
    /\ preload.asm
    /\ preload' = [preload EXCEPT
                      !.lookup = [round |-> "last",
                                  first |-> IF doubleword THEN 8 * x ELSE 8 * x + 1,
                                  size |-> IF doubleword THEN 4 ELSE 1],
                      !.pc = "asmout"]
    /\ UNCHANGED <<codecVars, aesVars, threadVars>>

\* movdqu xmm2, [L_OUTXORBLOCKS]: locals.outXorBlocks is the caller's xor
\* block, or zeros = (byte *)(Te+256) when there is none
AsmOutXor ==
    /\ preload.pc = "asmout"
    /\ preload' = [preload EXCEPT
                      !.touched = IF preload.hasXor THEN @
                                  ELSE @ \cup LinesOf(preload.base, preload.cacheLineSize,
                                                      ZerosOffset, 16),
                      !.pc = "done"]
    /\ UNCHANGED <<codecVars, aesVars, threadVars>>

\* The last round of the decryption reads Sd, not Td
SdLastRound ==
    /\ preload.pc = "last"
    /\ preload.layout = "Td32"
    /\ preload' = [preload EXCEPT !.pc = "done"]
    /\ UNCHANGED <<codecVars, aesVars, threadVars>>

\* The block is stored and the call returns
EngineReturn ==
    /\ preload.pc = "done"
    /\ preload' = NoEngineCall
    /\ UNCHANGED <<codecVars, aesVars, threadVars>>

InitPreload ==
    /\ FiltersIdle
    /\ \E b \in EngineTargets : RijndaelStart(b)

NextPreload ==
    \/ \E forward \in BOOLEAN, hasXor \in BOOLEAN, loadsKept \in BOOLEAN,
          cacheLineSize \in CacheLineSizes, base \in TableBases :
          EngineCall(forward, hasXor, loadsKept, cacheLineSize, base)
    \/ PreloadRead
    \/ PreloadLast
    \/ PreloadElided
    \/ AsmPreloadPass
    \/ AsmInXor
    \/ \E i \in 0..3, x \in LookupBytes : FirstRoundLookup(i, x)
    \/ \E i \in 0..3, x \in LookupBytes : FullRoundLookup(i, x)
    \/ \E x \in LookupBytes : EncLastLookup(x)
    \/ \E x \in LookupBytes, doubleword \in BOOLEAN : AsmLastLookup(x, doubleword)
    \/ AsmOutXor
    \/ SdLastRound
    \/ EngineReturn

SpecPreload == InitPreload /\ [][NextPreload]_vars

----------------------------------------------------------------------------
(* One filter alone, fed messages in pieces: a BaseN_Encoder, a
   BaseN_Decoder or a Grouper *)

\* The parameters of the encoders of the runs: bytes in, every Log2Base
SplitEncoderConfigs == {c \in CodecConfigs : c.Pad = "absent"}

\* The parameters of the decoders of the runs. The characters put in are the
\* alphabet's characters for the symbols 0 and 2^b - 1 and, where a block
\* has at most four characters, '=', which the lookup array does not know; a
\* message has up to one block and MaxExtra characters
SplitDecoderConfigs ==
    { [Log2Base |-> b, DecodingLookupArray |-> <<"table", "std">>,
       inputs |-> {Alphabet("std", b)[1], Alphabet("std", b)[Pow2(b)]}
                 \cup (IF EncBlockBits(8, b) \div b <= 4 THEN {61} ELSE {}),
       maxLen |-> (EncBlockBits(8, b) \div b) + MaxExtra] : b \in 1..7 }

InitSplit ==
    /\ \/ /\ cfg \in SplitEncoderConfigs
          /\ \E junk \in JunkBytes : enc = BaseN_Encoder_IsolatedInitialize(cfg, junk)
          /\ dec = NoFilter
          /\ grp = NoFilter
       \/ /\ cfg \in SplitDecoderConfigs
          /\ enc = NoFilter
          /\ \E junk \in JunkBytes : dec = BaseN_Decoder_IsolatedInitialize(cfg, junk)
          /\ grp = NoFilter
       \/ /\ cfg \in GrouperParameters
          /\ enc = NoFilter
          /\ dec = NoFilter
          /\ grp = Grouper_IsolatedInitialize(cfg)
    /\ StreamStart
    /\ RijndaelIdle

\* The bytes the caller of an encoder or a decoder picks from
SplitInputs == IF "inputs" \in DOMAIN cfg THEN cfg.inputs ELSE {}

\* BaseN_Encoder::Put2(bytes, messageEnd) with a sink that keeps the output,
\* a new call or the call again that returned blocked
EncoderPut(bytes, messageEnd, credit) ==
    LET first == pending = NoPending
        call == PutCall("EncoderPut", bytes, messageEnd)
    IN  /\ enc.thrown = "none"
        /\ ~ended
        /\ IF first THEN total + Len(bytes) <= cfg.maxLen ELSE pending = call
        /\ \E r \in {BaseN_Encoder_Put2(enc, bytes, messageEnd, Sink(credit))} :
               /\ enc' = r.obj
               /\ encOut' = encOut \o SinkData(r.outs)
               /\ pending' = AfterCall(call, r)
               /\ ended' = (messageEnd # 0 /\ ~r.blocked)
        /\ msg' = IF first THEN msg \o bytes ELSE msg
        /\ total' = IF first THEN total + Len(bytes) ELSE total
        /\ UNCHANGED <<cfg, dec, grp, decOut, grpOut, nIgnored, fed>>
        /\ UNCHANGED <<aesVars, threadVars, preload>>

\* BaseN_Decoder::Put2(chars, messageEnd) with a sink that keeps the output,
\* a new call or the call again that returned blocked
DecoderPut(chars, messageEnd, credit) ==
    LET first == pending = NoPending
        call == PutCall("DecoderPut", chars, messageEnd)
    IN  /\ dec.thrown = "none"
        /\ ~ended
        /\ IF first THEN total + Len(chars) <= cfg.maxLen ELSE pending = call
        /\ \E r \in {BaseN_Decoder_Put2(dec, chars, messageEnd, Sink(credit))} :
               /\ dec' = r.obj
               /\ decOut' = decOut \o SinkData(r.outs)
               /\ pending' = AfterCall(call, r)
               /\ ended' = (messageEnd # 0 /\ ~r.blocked)
        /\ msg' = IF first THEN msg \o chars ELSE msg
        /\ total' = IF first THEN total + Len(chars) ELSE total
        /\ UNCHANGED <<cfg, enc, grp, encOut, grpOut, nIgnored, fed>>
        /\ UNCHANGED <<aesVars, threadVars, preload>>

NextSplit ==
    \/ \E bytes \in SeqsUpTo(SplitInputs, MaxPut), messageEnd \in {0, -1},
          credit \in Credits :
          EncoderPut(bytes, messageEnd, credit)
    \/ \E chars \in SeqsUpTo(SplitInputs, MaxPut), messageEnd \in {0, -1},
          credit \in Credits :
          DecoderPut(chars, messageEnd, credit)
    \/ \E n \in 0..MaxGroupPut, messageEnd \in {0, -1}, credit \in Credits :
          GrouperPut(n, messageEnd, credit)
    \/ NewMessage

SpecSplit == InitSplit /\ [][NextSplit]_vars

----------------------------------------------------------------------------
(* Properties of the codec *)

\* The caller supplied a padding byte and did not switch padding off
PaddingEnabled(parameters) ==
    parameters.PaddingByte # -1 /\ parameters.Pad # "false"

\* ceil(a / b) and a rounded up to a multiple of b
CeilDiv(a, b) == (a + b - 1) \div b

RoundUp(a, b) == CeilDiv(a, b) * b

\* The characters of one encoder block: the least k > 0 with k * b bits a
\* whole number of bytes
EncoderBlockSize(b) ==
    CHOOSE k \in 1..8 : (k * b) % 8 = 0 /\ \A j \in 1..(k - 1) : (j * b) % 8 # 0

\* Bit k of the byte string s, most significant bit of the first byte first;
\* 0 beyond the string
MessageBit(s, k) ==
    IF k \div 8 < Len(s) THEN (s[k \div 8 + 1] \div Pow2(7 - (k % 8))) % 2 ELSE 0

\* The number the n bits of s from bit `from` on spell
RECURSIVE BitsValue(_, _, _)
BitsValue(s, from, n) ==
    IF n = 0 THEN 0
    ELSE 2 * BitsValue(s, from, n - 1) + MessageBit(s, from + n - 1)

\* The encoding of s by definition: its bits cut into symbols of b bits, the
\* last one filled with zero bits, each replaced by its alphabet character;
\* with padding, padding characters up to a whole block
ExpectedSymbols(parameters, s) ==
    [i \in 1..CeilDiv(8 * Len(s), parameters.Log2Base) |->
        Alphabet(parameters.EncodingLookupArray, parameters.Log2Base)
            [BitsValue(s, (i - 1) * parameters.Log2Base, parameters.Log2Base) + 1]]

ExpectedEncoding(parameters, s) ==
    LET symbols == ExpectedSymbols(parameters, s)
        whole == RoundUp(Len(symbols), EncoderBlockSize(parameters.Log2Base))
    IN  IF PaddingEnabled(parameters)
        THEN symbols \o [i \in 1..(whole - Len(symbols)) |-> parameters.PaddingByte]
        ELSE symbols

\* The characters of the alphabet the encoder was given
AlphabetChars(parameters) ==
    {Alphabet(parameters.EncodingLookupArray, parameters.Log2Base)[i] :
        i \in 1..Pow2(parameters.Log2Base)}

\* C1: for every Log2Base 1..7 and alphabet, a message put into the encoder
\* (the last put with messageEnd) whose output goes into a decoder with the
\* lookup array of that alphabet comes out of the decoder as it went in.
C1_RoundTrip == ended => decOut = msg

\* A message of 6 bytes (one block and a byte) has made the round trip in
\* base 32 with the reversed alphabet
C1_Witness ==
    /\ ended
    /\ cfg.Log2Base = 5
    /\ cfg.EncodingLookupArray = "rev"
    /\ Len(msg) = 6
    /\ Len(encOut) >= 10
    /\ decOut = msg

\* C3: a message of n bytes encoded with Log2Base b gives ceil(8n / b)
\* alphabet characters; with padding enabled the output is as long as that
\* count rounded up to a multiple of the encoder's block size (the rest are
\* padding characters), without padding nothing follows the symbols.
C3_EncodedLength ==
    ended =>
        LET symbols == CeilDiv(8 * Len(msg), cfg.Log2Base)
        IN  /\ Len(encOut) = IF PaddingEnabled(cfg)
                             THEN RoundUp(symbols, EncoderBlockSize(cfg.Log2Base))
                             ELSE symbols
            /\ \A i \in 1..Len(encOut) :
                  IF i <= symbols THEN encOut[i] \in AlphabetChars(cfg)
                  ELSE encOut[i] = cfg.PaddingByte

\* One byte encoded in base 8 with padding: 3 symbols and 5 padding
\* characters
C3_Witness ==
    /\ ended
    /\ PaddingEnabled(cfg)
    /\ cfg.Log2Base = 3
    /\ Len(msg) = 1
    /\ Len(encOut) = 8
    /\ encOut[4] = cfg.PaddingByte

\* "Man", "Ma", "M" and their Base64 encodings "TWFu", "TWE=", "TQ=="
Base64Examples ==
    { [plain |-> <<77, 97, 110>>, encoded |-> <<84, 87, 70, 117>>],
      [plain |-> <<77, 97>>, encoded |-> <<84, 87, 69, 61>>],
      [plain |-> <<77>>, encoded |-> <<84, 81, 61, 61>>] }

\* C7: at the end of a message the encoder has emitted the message's
\* symbols, the last one filled with zero bits, through the alphabet,
\* followed (padding enabled, a partial block pending) by padding characters
\* up to a whole block, and nothing more; its cursor is back at 0. With the
\* Base64 alphabet and padding '=': "Man" -> "TWFu", "Ma" -> "TWE=",
\* "M" -> "TQ==".
C7_EndOfMessage ==
    ended =>
        /\ encOut = ExpectedEncoding(cfg, msg)
        /\ enc.m_bytePos = 0
        /\ enc.m_bitPos = 0
        /\ \A x \in Base64Examples :
              (cfg \in Base64Configs /\ msg = x.plain) => encOut = x.encoded

\* "Ma" has been encoded to "TWE="
C7_Witness ==
    /\ ended
    /\ cfg \in Base64Configs
    /\ msg = <<77, 97>>
    /\ encOut = <<84, 87, 69, 61>>

\* C5: a character whose lookup entry is -1 leaves m_bytePos, m_bitPos and
\* m_outBuf of the decoder as they are and nothing reaches the sink, so an
\* encoding put into the decoder with such characters anywhere in between
\* decodes to the message.
C5_IgnoredChangeNothing ==
    /\ [][nIgnored' > nIgnored =>
            /\ dec'.m_bytePos = dec.m_bytePos
            /\ dec'.m_bitPos = dec.m_bitPos
            /\ dec'.m_outBuf = dec.m_outBuf
            /\ decOut' = decOut]_vars
    /\ [](ended => decOut = msg)

\* An encoding with two ignored characters in it has been decoded
C5_Witness ==
    /\ ended
    /\ nIgnored = 2
    /\ Len(msg) >= 2
    /\ fed = Len(encOut)
    /\ decOut = msg

\* "Hello World" and "Hello world"
HelloWorld == <<72, 101, 108, 108, 111, 32, 87, 111, 114, 108, 100>>

HelloLowerWorld == <<72, 101, 108, 108, 111, 32, 119, 111, 114, 108, 100>>

\* The decoder was given the whole text with the case-insensitive lookup
\* array of the Base32 alphabet, and the message has ended
Base32Decoded(text) ==
    /\ ended
    /\ msg = text
    /\ cfg.DecodingLookupArray = <<"base32", TRUE>>

\* C8: "jbswy3dpeblw64tmmq======" decoded with Log2Base 5 and the lookup
\* array InitializeDecodingLookupArray builds from
\* "ABCDEFGHIJKLMNOPQRSTUVWXYZ234567", case-insensitive, gives the 11 bytes
\* "Hello World"; the same text in upper or mixed case gives the same bytes.
C8_Base32HelloWorld ==
    \A text \in {Base32Lower, Base32Upper, Base32Mixed} :
        Base32Decoded(text) => decOut = HelloWorld

\* The lower-case text has been decoded to "Hello World"
C8_Witness == Base32Decoded(Base32Lower) /\ decOut = HelloWorld

\* C8 as stated: the lower-case text decodes to "Hello world"
C8_AsStated == Base32Decoded(Base32Lower) => decOut = HelloLowerWorld

\* A parameter of the grouper, <<>> when not supplied
GrouperParameter(parameters, name) ==
    IF name \in DOMAIN parameters THEN parameters[name] ELSE <<>>

\* The bytes of s from byte i on, the separator before every byte that
\* starts a group other than the first
RECURSIVE GroupedFrom(_, _, _, _)
GroupedFrom(s, i, g, separator) ==
    IF i > Len(s) THEN <<>>
    ELSE (IF i > 1 /\ (i - 1) % g = 0 THEN separator ELSE <<>>)
         \o <<s[i]>> \o GroupedFrom(s, i + 1, g, separator)

\* The bytes of the message the grouper has taken: all of them, or, while a
\* Put2 that returned blocked is to be made again, all but the bytes of that
\* call from m_inputPosition on
GrouperTaken ==
    IF pending = NoPending THEN msg
    ELSE SubSeq(msg, 1, Len(msg) - (Len(pending.bytes) - grp.m_inputPosition))

\* The sink has taken the separator before the group whose Output is to be
\* made again
SeparatorAhead ==
    grp.m_continueAt = 2 /\ grp.m_counter = 0 /\ GrouperTaken # <<>>

\* C4: with a group size g > 0 the grouper's output is, however the message
\* is cut into puts and wherever the sink blocks, the input bytes taken so
\* far in order with one separator between two consecutive groups of g
\* bytes, none before the first byte and none after the last, and the
\* terminator once the message has ended; g = 4, separator " ", terminator
\* "\n", input "TWFuTWFu" gives "TWFu TWFu\n".
C4_Grouping ==
    (grp.thrown = "none" /\ grp.m_groupSize > 0) =>
        /\ grpOut = GroupedFrom(GrouperTaken, 1, cfg.GroupSize, cfg.Separator)
                    \o (IF SeparatorAhead THEN cfg.Separator ELSE <<>>)
                    \o (IF ended THEN GrouperParameter(cfg, "Terminator") ELSE <<>>)
        /\ ended => GrouperTaken = msg
        /\ (/\ ended
            /\ cfg = [GroupSize |-> 4, Separator |-> <<32>>, Terminator |-> <<10>>]
            /\ msg = GrouperText)
           => grpOut = <<84, 87, 70, 117, 32, 84, 87, 70, 117, 10>>

\* "TWFuTWFu" has been grouped by 4 into "TWFu TWFu\n"
C4_Witness ==
    /\ ended
    /\ grp.thrown = "none"
    /\ grp.m_groupSize = 4
    /\ grp.m_separator = <<32>>
    /\ grp.m_terminator = <<10>>
    /\ msg = GrouperText
    /\ grpOut = <<84, 87, 70, 117, 32, 84, 87, 70, 117, 10>>

\* C13: the encoder pads (m_padding is not -1) exactly when a PaddingByte
\* was supplied and Pad is absent or true; without a PaddingByte, whatever
\* Pad is, the output holds characters of the alphabet only, and an ended
\* message's output is its ceil(8n/b) symbols and nothing more.
C13_PaddingEnabled ==
    /\ (enc.m_padding # -1) =
          (cfg.PaddingByte # -1 /\ cfg.Pad \in {"absent", "true"})
    /\ enc.m_padding # -1 => enc.m_padding = cfg.PaddingByte
    /\ cfg.PaddingByte = -1 =>
          /\ \A i \in 1..Len(encOut) : encOut[i] \in AlphabetChars(cfg)
          /\ ended => Len(encOut) = CeilDiv(8 * Len(msg), cfg.Log2Base)

\* A one-byte message has ended in base 64 with Pad = true and no
\* PaddingByte: two symbols and no padding
C13_Witness ==
    /\ ended
    /\ cfg.Log2Base = 6
    /\ cfg.PaddingByte = -1
    /\ cfg.Pad = "true"
    /\ Len(msg) = 1
    /\ Len(encOut) = 2

\* Between calls of Put2 the encoder holds less than a block: whole symbols
\* before the cursor, at the cursor the m_bitPos high bits of one partial
\* symbol, and 0 behind it
EncoderBetweenBlocks ==
    /\ enc.m_bytePos \in 0..(enc.m_outputBlockSize - 1)
    /\ (enc.m_bytePos > 0 \/ enc.m_bitPos > 0) =>
          \A i \in 1..enc.m_outputBlockSize :
              /\ enc.m_outBuf[i] < Pow2(enc.m_bitsPerChar)
              /\ i = enc.m_bytePos + 1 =>
                    enc.m_outBuf[i] % Pow2(enc.m_bitsPerChar - enc.m_bitPos) = 0
              /\ i > enc.m_bytePos + 1 => enc.m_outBuf[i] = 0

\* The cursor and the buffer in every state
EncoderCursorInBounds ==
    /\ enc.fault = "none"
    /\ enc.m_bitPos \in 0..(enc.m_bitsPerChar - 1)
    /\ enc.m_bytePos \in 0..enc.m_outputBlockSize
    /\ enc.m_bitsPerChar = cfg.Log2Base
    /\ enc.m_outputBlockSize = EncoderBlockSize(cfg.Log2Base)
    /\ Len(enc.m_outBuf) = enc.m_outputBlockSize

\* C14: no assert of Put2 has failed and m_outBuf and m_alphabet were never
\* indexed outside their bounds; m_bitPos < m_bitsPerChar, m_bytePos <=
\* m_outputBlockSize and the buffer has m_outputBlockSize places. After a
\* Put2 that returned 0, m_bytePos < m_outputBlockSize and, while symbols
\* are buffered, every place holds a value below 2^b. After a Put2 that
\* returned blocked (m_continueAt is 1 or 2) the buffer holds the m_bytePos
\* characters of the Output to be made again, alphabet or padding
\* characters, m_bytePos = m_outputBlockSize when it is a whole block.
C14_EncoderCursor ==
    /\ EncoderCursorInBounds
    /\ enc.m_continueAt = 0 => EncoderBetweenBlocks
    /\ enc.m_continueAt \in {0, 1, 2}
    /\ (enc.m_continueAt = 0) = (pending = NoPending)
    /\ enc.m_continueAt = 1 => enc.m_bytePos = enc.m_outputBlockSize
    /\ enc.m_continueAt # 0 =>
          \A i \in 1..enc.m_bytePos :
              enc.m_outBuf[i] \in AlphabetChars(cfg) \cup {enc.m_padding}

\* Base 32, a Put2 of a whole block has returned blocked at the Output of
\* the block: nothing is out, the cursor is at m_outputBlockSize and the
\* buffer holds the block's characters
C14_Witness ==
    /\ ~ended
    /\ cfg.Log2Base = 5
    /\ Len(msg) = 5
    /\ pending # NoPending
    /\ encOut = <<>>
    /\ enc.m_continueAt = 1
    /\ enc.m_bytePos = enc.m_outputBlockSize
    /\ enc.m_outBuf[1] \in AlphabetChars(cfg)

\* C14 as stated: between calls, also after a Put2 that returned blocked,
\* m_bytePos < m_outputBlockSize and the buffer holds symbols below 2^b
C14_AsStated == EncoderCursorInBounds /\ EncoderBetweenBlocks

\* What a sink that never blocks gets when the whole message goes, in one
\* Put2 with messageEnd, into a filter just initialized with the run's
\* parameters (whose fresh buffer holds `junk`)
WholeEncoded(junk) ==
    SinkData(BaseN_Encoder_Put2(BaseN_Encoder_IsolatedInitialize(cfg, junk), msg, -1,
                                Sink(-1)).outs)

WholeDecoded(junk) ==
    SinkData(BaseN_Decoder_Put2(BaseN_Decoder_IsolatedInitialize(cfg, junk), msg, -1,
                                Sink(-1)).outs)

WholeGrouped ==
    SinkData(Grouper_Put2(Grouper_IsolatedInitialize(cfg), msg, -1, Sink(-1)).outs)

\* C17: when a message has ended, what the encoder, the decoder or the
\* grouper has emitted for it, however the message was cut into puts and
\* whatever messages the object has processed before, is what a fresh
\* object with the same parameters emits when the whole message is put into
\* it at once.
C17_SplitIndependent ==
    ended =>
        /\ enc.thrown = "none" => \A junk \in JunkBytes : encOut = WholeEncoded(junk)
        /\ dec.thrown = "none" => \A junk \in JunkBytes : decOut = WholeDecoded(junk)
        /\ grp.thrown = "none" => grpOut = WholeGrouped

\* A Base64 decoder that has processed a message before has ended a message
\* of four characters, the second of which it ignores, and has emitted two
\* bytes for it
C17_Witness ==
    /\ ended
    /\ dec.thrown = "none"
    /\ cfg.Log2Base = 6
    /\ total > Len(msg)
    /\ Len(msg) = 4
    /\ msg[2] = 61
    /\ Len(decOut) = 2

----------------------------------------------------------------------------
(* Properties of Rijndael *)

\* C2: a block encrypted by an encryption object and decrypted by a
\* decryption object keyed with the same valid key (16, 24 or 32 bytes),
\* neither call with an xor block, comes back as it was.
C2_DecryptInvertsEncrypt ==
    (io.back # <<>> /\ io.xorBlock = <<>> /\ io.outKey = io.backKey) =>
        io.back = io.inBlock

\* A block has gone through the assembly encryption and the decryption under
\* the 24-byte key
C2_Witness ==
    /\ target.asm /\ target.sse2
    /\ io.outKey = Key192
    /\ io.backKey = Key192
    /\ io.xorBlock = <<>>
    /\ io.inBlock = Block172a
    /\ io.outBlock # Block172a
    /\ io.back = Block172a

\* 3ad77bb40d7a3660a89ecaf32466ef97
Cipher128 ==
    <<58, 215, 123, 180, 13, 122, 54, 96, 168, 158, 202, 243, 36, 102, 239,
      151>>

\* f3eed1bdb5d2a03c064b5a7e3db181f8
Cipher256 ==
    <<243, 238, 209, 189, 181, 210, 160, 60, 6, 75, 90, 126, 61, 177, 129,
      248>>

\* The known answers hold of the last encryption when it was of `plain`
\* without an xor block
KnownAnswersOf(plain) ==
    (io.outBlock # <<>> /\ io.xorBlock = <<>> /\ io.inBlock = plain) =>
        /\ io.outKey = Key128 => io.outBlock = Cipher128
        /\ io.outKey = Key256 => io.outBlock = Cipher256

\* C6: with the key 2b7e151628aed2a6abf7158809cf4f3c the plaintext
\* 6bc1bee22e409f96e93d7e117393172a encrypts to
\* 3ad77bb40d7a3660a89ecaf32466ef97, and with the key
\* 603deb1015ca71be2b73aef0857d77811f352c073b6108d72d9810a30914dff4 to
\* f3eed1bdb5d2a03c064b5a7e3db181f8, in every build.
C6_KnownAnswers == KnownAnswersOf(Block172a)

\* The plaintext ending in 2a has been encrypted under the 32-byte key
C6_Witness ==
    /\ io.inBlock = Block172a
    /\ io.xorBlock = <<>>
    /\ io.outKey = Key256
    /\ io.outBlock = Cipher256

\* C6 as stated: the plaintext 6bc1bee22e409f96e93d7e1173931722 encrypts to
\* these ciphertexts
C6_AsStated == KnownAnswersOf(Block1722)

\* C10: a SetKey call with a key length other than 16, 24 or 32 throws
\* InvalidKeyLength and leaves m_rounds and m_key of the object as they were.
C10_InvalidKeyLength ==
    [][(lastCall'.op = "SetKey" /\ lastCall'.keylen \notin {16, 24, 32}) =>
          /\ lastCall'.thrown = "InvalidKeyLength"
          /\ encObj' = encObj
          /\ decObj' = decObj]_vars

\* A keyed encryption object was given a key of 20 bytes, and is as it was
C10_Witness ==
    /\ lastCall.op = "SetKey"
    /\ lastCall.forward
    /\ lastCall.keylen = 20
    /\ lastCall.thrown = "InvalidKeyLength"
    /\ encObj.m_rounds = 10
    /\ userKeys.enc = Key128

\* Block number i (from 1) of a buffer
BlockAt(buf, i) == SubSeq(buf, 16 * i - 15, 16 * i)

\* C9: a bulk call of any length returns length mod 16 and has processed
\* floor(length / 16) blocks, the first block first: block number i is read
\* at offset 16(i-1) of the input and stored at offset 16(i-1) of the output
\* (where the flags let the pointers move), so that a plain call leaves the
\* encryption of input block i in output block i; the bytes beyond the whole
\* blocks are not written, and a call with length < 16 returns length and
\* writes nothing.
C9_BulkBlocks ==
    bulk.called =>
        /\ bulk.ret = bulk.length % 16
        /\ Len(bulk.log) = bulk.length \div 16
        /\ \A i \in 1..Len(bulk.log) :
              /\ bulk.log[i].n = i - 1
              /\ bulk.log[i].in.off =
                    IF HasFlag(bulk.flags, BT_DontIncrementInOutPointers)
                       \/ HasFlag(bulk.flags, BT_InBlockIsCounter)
                    THEN 0 ELSE 16 * (i - 1)
              /\ bulk.log[i].out =
                    IF HasFlag(bulk.flags, BT_DontIncrementInOutPointers)
                    THEN 0 ELSE 16 * (i - 1)
        /\ (bulk.flags = 0 /\ bulk.xorBlocks = <<>>) =>
              \A i \in 1..(bulk.length \div 16) :
                  BlockAt(bulk.out, i) =
                      EncProcessPortable(target, s_TeFilled, encObj,
                          BlockAt(BulkMemory(bulk.length, FALSE).in, i), <<>>)
        /\ \A j \in (16 * (bulk.length \div 16) + 1)..bulk.length :
              bulk.out[j] = BulkMemory(bulk.length, FALSE).out[j]
        /\ bulk.length < 16 =>
              /\ bulk.ret = bulk.length
              /\ bulk.out = BulkMemory(bulk.length, FALSE).out

\* The assembly has processed the two whole blocks of a plain call of 47
\* bytes and returned 15
C9_Witness ==
    /\ bulk.called
    /\ target.sse2
    /\ bulk.length = 47
    /\ bulk.flags = 0
    /\ bulk.ret = 15
    /\ Len(bulk.log) = 2
    /\ bulk.log[2].out = 16

\* The table `tb` is wholly stored
TableStored(tb) == \A c \in 1..TableRuns : tables[tb][c] >= 1

\* C11: when threads call SetKey on distinct objects at the same time, each
\* table is filled once (no entry is stored twice), no thread reads Td in
\* the inverse MixColumn loop before every entry of Td is stored, and no
\* entry of a table is stored once the table's flag is set.
C11_FilledOnce ==
    [][ /\ \A tb \in {"Te", "Td"} : \A c \in 1..TableRuns : tables'[tb][c] <= 1
        /\ \A t \in Threads :
              (threads[t].pc = "mix" /\ threads'[t].pc = "done") => TableStored("Td")
        /\ (tables'.Te # tables.Te) => ~s_TeFilled
        /\ (tables'.Td # tables.Td) => ~s_TdFilled ]_vars

\* The flag DontIncrementInOutPointers of the last bulk call
DontIncrement == HasFlag(bulk.flags, BT_DontIncrementInOutPointers)

\* The offset of a block pointer before block number i: where it started
\* (fixed) or 16 bytes further for every block before
PointerAt(fixed, i) == IF fixed THEN 0 ELSE 16 * (i - 1)

\* The xor pointer of the entry e of the log: the one of the two that points
\* at the caller's xor blocks
XorPointer(e) == IF e.inXor.buf = "xor" THEN e.inXor ELSE e.outXor

\* The flag InBlockIsCounter of the bulk call
CounterMode == HasFlag(bulk.flags, BT_InBlockIsCounter)

RoundsIndexed(layout) == IF layout = "Te64" THEN 256 * 8 ELSE 256 * 4 * 4

\* The cache lines of the table storage the rounds of the call index into
IndexedLines ==
    LinesOf(preload.base, preload.cacheLineSize, 0, RoundsIndexed(preload.layout))

\* The cache lines of the last lookup of the call
LookupLines ==
    LinesOf(preload.base, preload.cacheLineSize, preload.lookup.first, preload.lookup.size)

\* C15: in every single-block call, for every cache line size reported,
\* when the first lookup of the rounds is made (and from then on) a word
\* has been read in every cache line of the table storage the rounds index
\* into, so every lookup of the rounds falls into a line that was read.
C15_AsStated ==
    preload.lookup.round # "none" =>
        /\ IndexedLines \subseteq preload.touched
        /\ LookupLines \subseteq preload.touched

\* The object the last SetKey call keyed
LastKeyed == IF lastCall.forward THEN encObj ELSE decObj

\* The user key of the last SetKey call that did not throw
LastUserKey == IF lastCall.forward THEN userKeys.enc ELSE userKeys.dec

\* C16: after a SetKey with a key of 16, 24 or 32 bytes m_rounds is 10, 12
\* or 14 and m_key has 4 * (m_rounds + 1) words; the expansion loop was left
\* by its break (the pointer rk and keylen/4 + 4 words met the end of the
\* array), it stored to every word index from keylen/4 up to the end of the
\* array and to no other, and no word of m_key is left as m_key.New() made
\* it: the key array is the same whatever the fresh array held.
C16_KeyExpansion ==
    (lastCall.op = "SetKey" /\ lastCall.keylen \in {16, 24, 32}) =>
        /\ lastCall.thrown = "none"
        /\ LastKeyed.m_rounds =
              (IF lastCall.keylen = 16 THEN 10 ELSE IF lastCall.keylen = 24 THEN 12 ELSE 14)
        /\ Len(LastKeyed.m_key) = 4 * (LastKeyed.m_rounds + 1)
        /\ lastCall.expansion.exit = "break"
        /\ lastCall.expansion.rk + lastCall.keylen \div 4 + 4 = Len(LastKeyed.m_key)
        /\ lastCall.expansion.stores =
              (lastCall.keylen \div 4)..(4 * (LastKeyed.m_rounds + 1) - 1)
        /\ \A junk \in JunkBytes :
              LastKeyed.m_key =
                  KeySchedule(LastUserKey, lastCall.keylen, lastCall.forward,
                              s_TeFilled, s_TdFilled, junk).obj.m_key

\* A decryption object keyed with 24 bytes: 12 rounds, 52 words, the loop
\* left in its eighth pass with the last store to word 51
C16_Witness ==
    /\ lastCall.op = "SetKey"
    /\ ~lastCall.forward
    /\ lastCall.keylen = 24
    /\ decObj.m_rounds = 12
    /\ Len(decObj.m_key) = 52
    /\ lastCall.expansion.rk = 42
    /\ 51 \in lastCall.expansion.stores

============================================================================
